---- MODULE Spec2Model ----
(***************************************************************************)
(* A model of CDiffTextBuffer (Src/DiffTextBuffer.cpp): the EOL style      *)
(* detector, the control-character escaper, LoadFromFile, SaveToFile, the   *)
(* line-flag and sync-point handling of the edit operations.               *)
(*                                                                         *)
(* Characters are their code points (integers); a text is a sequence of    *)
(* characters; an EOL marker is one of <<13,10>>, <<10>>, <<13>>, <<>>.    *)
(***************************************************************************)
EXTENDS Integers, Sequences, FiniteSets, TLC

\* ------------------------------------------------------------------ bounds
\* Largest EOL count of a statistics triple.
MaxCount == 4
\* Longest line handed to EscapeControlChars.
MaxLen == 4
\* Longest file content (in characters) handed to LoadFromFile.
MaxFileLen == 4
\* Most lines of a buffer that is saved or edited.
MaxLines == 3
\* Most sync points of the owning document.
MaxSync == 2
\* Most undo records of a buffer and most undo targets of the document.
MaxUndo == 3
\* Most calls of StartUpdating on one progress bar.
MaxStarts == 2
\* Most items of one folder compare.
MaxItems == 2

\* --------------------------------------------------------------- constants
CRLF_STYLE_AUTOMATIC == "AUTOMATIC"
CRLF_STYLE_DOS == "DOS"
CRLF_STYLE_UNIX == "UNIX"
CRLF_STYLE_MAC == "MAC"
CRLF_STYLE_MIXED == "MIXED"

LF_DIFF == "LF_DIFF"
LF_TRIVIAL == "LF_TRIVIAL"
LF_MOVED == "LF_MOVED"
LF_SNP == "LF_SNP"
LF_GHOST == "LF_GHOST"
LF_INVISIBLE == "LF_INVISIBLE"

UNDO_INSERT == "UNDO_INSERT"
UNDO_BEGINGROUP == "UNDO_BEGINGROUP"

\* The lead-in character of an escape sequence, '\x0F'.
LEADIN == 15
\* The lead-out character of an escape sequence, a backslash.
LEADOUT == 92
\* The horizontal tab, the one control character that is not escaped.
TAB == 9

EolCRLF == <<13, 10>>
EolLF == <<10>>
EolCR == <<13>>
EolNone == <<>>

\* All sequences over S of length at most n.
RECURSIVE SeqUpTo(_, _)
SeqUpTo(S, n) ==
    IF n = 0 THEN {<<>>}
    ELSE LET shorter == SeqUpTo(S, n - 1)
         IN  shorter \cup {Append(q, x) : q \in shorter, x \in S}

\* ------------------------------------------------------ EOL style detector
\* The text statistics of the reader: [ncrlfs, ncrs, nlfs, nlosses].
IsTextFileStylePure(stats) ==
    LET t1 == IF stats.ncrlfs > 0 THEN 1 ELSE 0
        t2 == IF stats.ncrs > 0 THEN 1 ELSE 0
        t3 == IF stats.nlfs > 0 THEN 1 ELSE 0
        nType == t1 + t2 + t3
    IN  nType <= 1

\* A detector that takes the most frequent style without the purity check.
GetTextFileStyle_NoPurityCheck(stats) ==
    IF stats.ncrlfs >= stats.nlfs
    THEN IF stats.ncrlfs >= stats.ncrs THEN CRLF_STYLE_DOS ELSE CRLF_STYLE_MAC
    ELSE IF stats.nlfs >= stats.ncrs THEN CRLF_STYLE_UNIX ELSE CRLF_STYLE_MAC

GetTextFileStyle(stats) ==
    IF ~IsTextFileStylePure(stats)
    THEN CRLF_STYLE_MIXED
    ELSE IF stats.ncrlfs >= stats.nlfs
         THEN IF stats.ncrlfs >= stats.ncrs THEN CRLF_STYLE_DOS ELSE CRLF_STYLE_MAC
         ELSE IF stats.nlfs >= stats.ncrs THEN CRLF_STYLE_UNIX ELSE CRLF_STYLE_MAC

\* ------------------------------------------------ control-character escaper
\* An escaper test that spares the lead-in character as well as TAB.
IsEscapedChar_SparesLeadIn(c) == (c \div 32 = 0) /\ c # TAB /\ c # LEADIN

\* !(c & ~0x1F) && c != '\t': a control character in 0..31 other than TAB.
IsEscapedChar(c) == (c \div 32 = 0) /\ c # TAB

\* One lower-case hexadecimal digit, as _itot(.., 16) writes it.
HexDigit(d) == IF d < 10 THEN 48 + d ELSE 97 + (d - 10)

\* _itot(0x100 | c, .., 16) for c in 0..255: the digits '1', high nibble, low
\* nibble, then the terminating zero.
Itot100(c) == <<HexDigit(1), HexDigit((c \div 16) % 16), HexDigit(c % 16), 0>>

\* A first loop that counts every character in 0..31, TAB included.
CountEscaped_CountsTab(s) == Cardinality({k \in 1..Len(s) : s[k] \div 32 = 0})

\* The number of characters of s that need escaping (first loop).
RECURSIVE CountEscaped(_)
CountEscaped(s) ==
    IF s = <<>> THEN 0
    ELSE (IF IsEscapedChar(Head(s)) THEN 1 ELSE 0) + CountEscaped(Tail(s))

\* The second loop, on the buffer p (1-based here): i characters are still to
\* be read, n is the write position; both run from the end to the start.
RECURSIVE EscapeLoop(_, _, _)
EscapeLoop(p, i, n) ==
    IF i = 0 THEN p
    ELSE LET c == p[i]
         IN  IF IsEscapedChar(c)
             THEN LET h == Itot100(c)
                      q == [p EXCEPT ![n - 3] = h[1], ![n - 2] = h[2],
                                     ![n - 1] = h[3], ![n] = LEADOUT]
                  IN  EscapeLoop([q EXCEPT ![n - 3] = LEADIN], i - 1, n - 4)
             ELSE EscapeLoop([p EXCEPT ![n] = c], i - 1, n - 1)

\* The reads and writes of the second loop, one record for each iteration in
\* the order of execution: the index read (p[--i]) and the lowest and highest
\* index written (_itot, the lead-out and p[--n]), 1-based.
RECURSIVE EscapeLoopWrites(_, _, _)
EscapeLoopWrites(p, i, n) ==
    IF i = 0 THEN <<>>
    ELSE LET c == p[i]
         IN  IF IsEscapedChar(c)
             THEN LET h == Itot100(c)
                      q == [p EXCEPT ![n - 3] = LEADIN, ![n - 2] = h[2],
                                     ![n - 1] = h[3], ![n] = LEADOUT]
                  IN  <<[read |-> i, lo |-> n - 3, hi |-> n]>>
                      \o EscapeLoopWrites(q, i - 1, n - 4)
             ELSE <<[read |-> i, lo |-> n, hi |-> n]>>
                  \o EscapeLoopWrites([p EXCEPT ![n] = c], i - 1, n - 1)

\* The reads and writes of EscapeControlChars(s) on its grown buffer.
EscapeWrites(s) ==
    LET n == Len(s) + 3 * CountEscaped(s)
    IN  EscapeLoopWrites(s \o [k \in 1..(n + 1 - Len(s)) |-> 0], Len(s), n)

\* An escaper that writes the two nibbles in the wrong order.
EscapeControlChars_SwappedNibbles(s) ==
    LET RECURSIVE E(_)
        E(t) == IF t = <<>> THEN <<>>
                ELSE (IF IsEscapedChar(Head(t))
                      THEN <<LEADIN, HexDigit(Head(t) % 16),
                             HexDigit((Head(t) \div 16) % 16), LEADOUT>>
                      ELSE <<Head(t)>>) \o E(Tail(t))
    IN  E(s)

EscapeControlChars(s) ==
    LET n == Len(s) + 3 * CountEscaped(s)
        grown == s \o [k \in 1..(n + 1 - Len(s)) |-> 0]
        r == EscapeLoop(grown, Len(s), n)
    IN  SubSeq(r, 1, Len(r) - 1)


\* ------------------------------------------------------------ the line store
Flags == {LF_DIFF, LF_TRIVIAL, LF_MOVED, LF_SNP, LF_GHOST, LF_INVISIBLE}
Eols == {EolCRLF, EolLF, EolCR}

\* m_aLines[line] of the code (0-based) is lines[line + 1] here.
LineAt(lines, line) == lines[line + 1]
GetLineFlags(lines, line) == LineAt(lines, line).flags
GetLineEol(lines, line) == LineAt(lines, line).eol
GetLineChars(lines, line) == LineAt(lines, line).text

\* A LogicalLine: its text without the EOL marker, the marker, the flag set.
NewLine(text, eol) == [text |-> text, eol |-> eol, flags |-> {}]

\* AppendLine(lineno, sline + eol): the line is stored as its text and the
\* EOL marker found at its end.
AppendLine(full) ==
    LET n == Len(full)
    IN  IF n >= 2 /\ SubSeq(full, n - 1, n) = EolCRLF
        THEN NewLine(SubSeq(full, 1, n - 2), EolCRLF)
        ELSE IF n >= 1 /\ <<full[n]>> \in {EolLF, EolCR}
             THEN NewLine(SubSeq(full, 1, n - 1), <<full[n]>>)
             ELSE NewLine(full, EolNone)

\* ---------------------------------------------------------------- the reader
\* The position of the first CR or LF of s, or 0.
RECURSIVE FirstEol(_, _)
FirstEol(s, k) ==
    IF k > Len(s) THEN 0
    ELSE IF s[k] \in {13, 10} THEN k ELSE FirstEol(s, k + 1)

\* UniFile::ReadString on the unread rest of the file: ok is false at the end
\* of the file (nothing read); else one line, its EOL marker and the new rest.
ReadString(rest) ==
    IF rest = <<>>
    THEN [ok |-> FALSE, sline |-> <<>>, eol |-> EolNone, rest |-> <<>>]
    ELSE LET k == FirstEol(rest, 1)
         IN  IF k = 0
             THEN [ok |-> TRUE, sline |-> rest, eol |-> EolNone, rest |-> <<>>]
             ELSE IF rest[k] = 13 /\ k < Len(rest) /\ rest[k + 1] = 10
                  THEN [ok |-> TRUE, sline |-> SubSeq(rest, 1, k - 1),
                        eol |-> EolCRLF, rest |-> SubSeq(rest, k + 2, Len(rest))]
                  ELSE [ok |-> TRUE, sline |-> SubSeq(rest, 1, k - 1),
                        eol |-> <<rest[k]>>, rest |-> SubSeq(rest, k + 1, Len(rest))]

\* UniFile::GetTxtStats after the whole file was read.
RECURSIVE GetTxtStats(_)
GetTxtStats(rest) ==
    LET r == ReadString(rest)
        z == [ncrlfs |-> 0, ncrs |-> 0, nlfs |-> 0]
    IN  IF ~r.ok THEN z
        ELSE LET t == GetTxtStats(r.rest)
             IN  [ncrlfs |-> t.ncrlfs + (IF r.eol = EolCRLF THEN 1 ELSE 0),
                  ncrs |-> t.ncrs + (IF r.eol = EolCR THEN 1 ELSE 0),
                  nlfs |-> t.nlfs + (IF r.eol = EolLF THEN 1 ELSE 0)]

\* ------------------------------------------------------------- LoadFromFile
\* The do-while loop of LoadFromFile: rest is what the reader has not read,
\* preveol the EOL marker of the line read before, lines the lines appended.
RECURSIVE LoadLoop(_, _, _)
LoadLoop(rest, preveol, lines) ==
    LET r == ReadString(rest)
        done == ~r.ok
    IN  IF done /\ preveol = EolNone
        THEN lines
        ELSE LET more == Append(lines, AppendLine(r.sline \o r.eol))
             IN  IF done THEN more ELSE LoadLoop(r.rest, r.eol, more)

\* The read loop entered without the initialisation of preveol.
LoadedLines_PrevEolEmpty(content) == LoadLoop(content, EolNone, <<>>)

\* A read loop that quits at the end of the file whatever preveol is: no empty
\* line is added after a file that ends with an EOL marker.
LoadedLines_NoExtraLine(content) ==
    LET l == LoadLoop(content, EolLF, <<>>)
    IN  IF Len(l) > 1 /\ l[Len(l)].text = <<>>
        THEN SubSeq(l, 1, Len(l) - 1) ELSE l

\* The lines LoadFromFile stores for a file content; preveol starts as "\n"
\* ("preveol must be initialized for empty files").
LoadedLines(content) == LoadLoop(content, EolLF, <<>>)


\* --------------------------------------------------------------- SaveToFile
\* CGhostTextBuffer::ApparentLastRealLine: the index of the last line that is
\* not a ghost line, -1 when there is none.
ApparentLastRealLine(lines) ==
    LET real == {k \in 0..(Len(lines) - 1) : LF_GHOST \notin GetLineFlags(lines, k)}
    IN  IF real = {} THEN -1 ELSE CHOOSE k \in real : \A j \in real : j <= k

\* GetStringEol: the canonical EOL marker of a style.
GetStringEol(nCrlfStyle) ==
    CASE nCrlfStyle = CRLF_STYLE_DOS -> EolCRLF
      [] nCrlfStyle = CRLF_STYLE_UNIX -> EolLF
      [] nCrlfStyle = CRLF_STYLE_MAC -> EolCR
      [] OTHER -> EolCRLF

\* One WriteString call: the buffer line it writes, the text and the EOL.
WriteRec(line, text, eol) == [line |-> line, text |-> text, eol |-> eol]

\* A save that escapes the control characters of every file it writes.
SavedLineText_AlwaysEscaped(lines, line, bTempFile) ==
    EscapeControlChars(GetLineChars(lines, line))

\* sLine before the EOL marker is appended: the characters of the line, run
\* through EscapeControlChars when the file is a temporary file.
SavedLineText(lines, line, bTempFile) ==
    IF bTempFile THEN EscapeControlChars(GetLineChars(lines, line))
    ELSE GetLineChars(lines, line)

\* The line loop of SaveToFile from `line` on, as the sequence of its
\* WriteString calls.
RECURSIVE SaveLoop(_, _, _, _, _)
SaveLoop(lines, line, end, nCrlfStyle, bTempFile) ==
    IF line >= end THEN <<>>
    ELSE IF LF_GHOST \in GetLineFlags(lines, line)
         THEN SaveLoop(lines, line + 1, end, nCrlfStyle, bTempFile)
         ELSE LET sLine == SavedLineText(lines, line, bTempFile)
                  lastRealLine == ApparentLastRealLine(lines)
              IN  IF line = lastRealLine \/ lastRealLine = -1
                  THEN <<WriteRec(line, sLine, EolNone)>>
                  ELSE LET eol == IF nCrlfStyle \in {CRLF_STYLE_AUTOMATIC, CRLF_STYLE_MIXED}
                                  THEN GetLineEol(lines, line)
                                  ELSE GetStringEol(nCrlfStyle)
                       IN  <<WriteRec(line, sLine, eol)>>
                           \o SaveLoop(lines, line + 1, end, nCrlfStyle, bTempFile)

\* A line loop that writes ghost lines like real ones.
SaveLines_WritesGhosts(lines, nStartLine, nLines, nCrlfStyle, bTempFile) ==
    LET plain == [k \in 1..Len(lines) |-> [lines[k] EXCEPT !.flags = @ \ {LF_GHOST}]]
    IN  SaveLoop(plain, nStartLine, nStartLine + nLines, nCrlfStyle, bTempFile)

\* A line loop that ends the range's output without an EOL: it takes the last
\* real line of the range for the last real line of the buffer.
SaveLines_LastOfRange(lines, nStartLine, nLines, nCrlfStyle, bTempFile) ==
    SaveLoop(SubSeq(lines, 1, nStartLine + nLines), nStartLine,
             nStartLine + nLines, nCrlfStyle, bTempFile)

\* A line loop that takes the styles that preserve EOLs for DOS.
SaveLines_CanonicalEol(lines, nStartLine, nLines, nCrlfStyle, bTempFile) ==
    SaveLoop(lines, nStartLine, nStartLine + nLines,
             IF nCrlfStyle \in {CRLF_STYLE_AUTOMATIC, CRLF_STYLE_MIXED}
             THEN CRLF_STYLE_DOS ELSE nCrlfStyle,
             bTempFile)

\* A line loop that ends every line with its own marker, whatever the style.
SaveLines_OwnEol(lines, nStartLine, nLines, nCrlfStyle, bTempFile) ==
    SaveLoop(lines, nStartLine, nStartLine + nLines, CRLF_STYLE_AUTOMATIC, bTempFile)

\* for (line = nStartLine; line < nStartLine + nLines; ++line) ...
SaveLines(lines, nStartLine, nLines, nCrlfStyle, bTempFile) ==
    SaveLoop(lines, nStartLine, nStartLine + nLines, nCrlfStyle, bTempFile)

\* What the WriteString calls put into the file, in order.
RECURSIVE FileContent(_)
FileContent(written) ==
    IF written = <<>> THEN <<>>
    ELSE Head(written).text \o Head(written).eol \o FileContent(Tail(written))


\* -------------------------------------------------------------------- state
VARIABLES
    m_aLines,       \* the line store: a sequence of [text, eol, flags]
    m_bInit,        \* the buffer is initialized
    m_bModified,    \* modified since the last save
    m_nCRLFMode,    \* the recorded EOL style of the buffer
    m_nThisPane,    \* the pane this buffer belongs to
    m_aUndoBuf,     \* the undo records: a sequence of [flags]
    m_nUndoPosition,\* the number of undo records that are applied
    m_nSyncPosition,\* the undo position at the last save
    docModified,    \* the owning document's modified flag
    undoTgt,        \* the owning document's undo targets: one view per group
    curUndo,        \* the document's cursor in undoTgt: 0..Len(undoTgt)
    m_dwCurrentRevisionNumber, \* the revision counter of the buffer's edits
    m_dwRevisionNumberOnSave,  \* its value at the last save of a user file
    m_encoding,     \* the encoding recorded by the load: unicoding, bom, codepage
    m_bCompareReady,\* progress bar: the end of a compare has been shown
    m_prevState,    \* progress bar: the compare state seen by the last tick
    timerSet,       \* progress bar: the IDT_UPDATE timer is running
    dlgItems,       \* progress bar: the fields shown, [compared, total]
    compareStats,   \* CompareStats: [state, done, compared, total]
    nStartUpdating, \* the calls of StartUpdating so far
    nEndUpdating,   \* the calls of EndUpdating since the last StartUpdating
    syncPointList,  \* the owning document's sync points: one line per pane
    disk,           \* the files: src (to load), unpacked, dest, tmp (MRG_ file), packed
    faults,         \* what fails in the environment of this run
    call            \* the last operation: its arguments, result and effects

vars == <<m_aLines, m_bInit, m_bModified, m_nCRLFMode, m_nThisPane,
          m_aUndoBuf, m_nUndoPosition, m_nSyncPosition, docModified,
          undoTgt, curUndo, m_dwCurrentRevisionNumber, m_dwRevisionNumberOnSave,
          m_encoding, m_bCompareReady, m_prevState, timerSet, dlgItems,
          compareStats, nStartUpdating, nEndUpdating, syncPointList, disk, faults, call>>

\* The undo history of the buffer and of the owning document.
undoVars == <<m_aUndoBuf, m_nUndoPosition, undoTgt, curUndo>>

\* The progress bar of a folder compare and the statistics it shows.
barVars == <<m_bCompareReady, m_prevState, timerSet, dlgItems, compareStats,
             nStartUpdating, nEndUpdating>>

\* The text buffer, its document and its files.
bufferVars == <<m_aLines, m_bInit, m_bModified, m_nCRLFMode, m_nThisPane,
                m_aUndoBuf, m_nUndoPosition, m_nSyncPosition, docModified,
                undoTgt, curUndo, m_dwCurrentRevisionNumber,
                m_dwRevisionNumberOnSave, m_encoding, syncPointList, disk, faults>>

\* The revision numbers of the buffer.
revVars == <<m_dwCurrentRevisionNumber, m_dwRevisionNumberOnSave>>

\* FileTextEncoding values: an 8-bit file in a codepage, UTF-8 with a BOM.
Encoding8Bit == [m_unicoding |-> "NONE", m_bom |-> FALSE, m_codepage |-> "ANSI"]
EncodingUtf8Bom == [m_unicoding |-> "UTF8", m_bom |-> TRUE, m_codepage |-> "UTF8"]
Encodings == {Encoding8Bit, EncodingUtf8Bom}

Absent == [exists |-> FALSE, data |-> <<>>]
File(data) == [exists |-> TRUE, data |-> data]
NoFiles == [src |-> Absent, unpacked |-> Absent, dest |-> Absent, tmp |-> Absent,
            packed |-> Absent]
NoCall == [op |-> "none"]

\* The buffer as the constructor leaves it.
Constructed ==
    /\ m_aLines = <<>>
    /\ m_bInit = FALSE
    /\ m_bModified = FALSE
    /\ m_nCRLFMode = CRLF_STYLE_DOS
    /\ m_nThisPane = 0
    /\ syncPointList = <<>>
    /\ m_aUndoBuf = <<>>
    /\ m_nUndoPosition = 0
    /\ m_nSyncPosition = 0
    /\ docModified = FALSE
    /\ undoTgt = <<>>
    /\ curUndo = 0
    /\ m_dwCurrentRevisionNumber = 0
    /\ m_dwRevisionNumberOnSave = 0
    /\ m_encoding = Encoding8Bit

\* CCrystalTextBuffer::InitNew: the valid empty buffer, one empty line.
InitNewLines == <<NewLine(<<>>, EolNone)>>

\* ------------------------------------------------------------- LoadFromFile
FRESULT_OK == "FRESULT_OK"
FRESULT_OK_IMPURE == "FRESULT_OK_IMPURE"
FRESULT_ERROR == "FRESULT_ERROR"
FRESULT_ERROR_UNPACK == "FRESULT_ERROR_UNPACK"

LoadStyles == {CRLF_STYLE_AUTOMATIC, CRLF_STYLE_DOS, CRLF_STYLE_UNIX,
               CRLF_STYLE_MAC, CRLF_STYLE_MIXED}

\* !FileTransform_Unpacking(infoUnpacker, sFileName, sToFindUnpacker)
UnpackFailed(flt) == "unpack" \in flt

\* A load that does not notice that the file cannot be opened.
OpenReadFailed_Ignored(flt) == FALSE

\* !pufile->OpenReadOnly(pszFileName)
OpenReadFailed(flt) == "openRead" \in flt

\* A result that reports every load as pure.
LoadResult_AlwaysPure(stats) == FRESULT_OK

\* The base result code of a load that read the file.
LoadResult(stats) ==
    IF IsTextFileStylePure(stats) THEN FRESULT_OK ELSE FRESULT_OK_IMPURE

\* TFile(name).remove() inside try/catch: the file is gone, or remove throws,
\* the file stays and the error is logged.
RemoveFile(dsk, name, flt) ==
    IF "remove" \in flt THEN dsk ELSE [dsk EXCEPT ![name] = Absent]
RemoveEvents(name, flt) ==
    IF "remove" \in flt THEN <<"remove " \o name, "LogError">>
    ELSE <<"remove " \o name>>

\* bUnpackToTemp: the unpack transform wrote the text to a temporary file and
\* changed sFileName to it. nlosses: the loss count in the reader's
\* statistics after the last line. readOnly: the caller's value of the
\* in-out parameter.
\* A load that records the requested style as it is.
LoadedStyle_AsRequested(nCrlfStyle, stats) == nCrlfStyle

\* The style SetCRLFMode is given: the requested one, or for AUTOMATIC the
\* style of the reader's EOL statistics.
LoadedStyle(nCrlfStyle, stats) ==
    IF nCrlfStyle = CRLF_STYLE_AUTOMATIC THEN GetTextFileStyle(stats)
    ELSE nCrlfStyle

LoadFromFileCall(nCrlfStyle, bUnpackToTemp, nlosses, readOnly, fileEncoding) ==
    /\ ~m_bInit
    /\ m_aLines = <<>>
    /\ disk.src.exists
    /\ LET content == disk.src.data
            stats == GetTxtStats(content)
            unpacked == IF bUnpackToTemp
                        THEN [disk EXCEPT !.unpacked = File(content)]
                        ELSE disk
            cleaned == IF bUnpackToTemp
                       THEN RemoveFile(unpacked, "unpacked", faults)
                       ELSE unpacked
            LoadFromFileExit ==
                <<"Close">> \o (IF bUnpackToTemp
                                THEN RemoveEvents("unpacked", faults) ELSE <<>>)
            args == [op |-> "LoadFromFile", nCrlfStyle |-> nCrlfStyle,
                     bUnpackToTemp |-> bUnpackToTemp, nlosses |-> nlosses,
                     readOnlyIn |-> readOnly, fileEncoding |-> fileEncoding]
        IN  IF UnpackFailed(faults)
            THEN /\ m_aLines' = InitNewLines
                 /\ m_nCRLFMode' = CRLF_STYLE_DOS
                 /\ m_encoding' = m_encoding
                 /\ disk' = disk
                 /\ call' = args @@ [ret |-> FRESULT_ERROR_UNPACK, lossy |-> FALSE,
                                     readOnly |-> readOnly,
                                     events |-> <<"Unpacking failed", "InitNew">>]
            ELSE IF OpenReadFailed(faults)
            THEN /\ m_aLines' = InitNewLines
                 /\ m_nCRLFMode' = CRLF_STYLE_DOS
                 /\ m_encoding' = m_encoding
                 /\ disk' = cleaned
                 /\ call' = args @@ [ret |-> FRESULT_ERROR, lossy |-> FALSE,
                                     readOnly |-> readOnly,
                                     events |-> <<"OpenReadOnly failed", "InitNew">>
                                                \o LoadFromFileExit]
            ELSE /\ m_aLines' = LoadedLines(content)
                 /\ m_nCRLFMode' = LoadedStyle(nCrlfStyle, stats)
                 /\ m_encoding' = fileEncoding
                 /\ disk' = cleaned
                 /\ call' = args @@ [ret |-> LoadResult(stats),
                                     lossy |-> nlosses # 0,
                                     readOnly |-> IF nlosses # 0 THEN TRUE ELSE readOnly,
                                     events |-> <<"OpenReadOnly", "ReadString">>
                                                \o LoadFromFileExit]
    /\ m_bInit' = TRUE
    /\ m_bModified' = FALSE
    /\ m_nSyncPosition' = 0
    /\ m_nUndoPosition' = 0
    /\ UNCHANGED <<m_nThisPane, m_aUndoBuf, docModified, undoTgt, curUndo,
                   revVars, syncPointList, faults,
                   barVars>>

LoadFromFile ==
    \E nCrlfStyle \in LoadStyles, bUnpackToTemp \in BOOLEAN,
       nlosses \in 0..1, readOnly \in BOOLEAN :
    \E fileEncoding \in IF nlosses = 0 /\ ~readOnly /\ ~bUnpackToTemp
                         THEN Encodings ELSE {Encoding8Bit} :
        LoadFromFileCall(nCrlfStyle, bUnpackToTemp, nlosses, readOnly, fileEncoding)


\* --------------------------------------------------------------- SaveToFile
SAVE_DONE == "SAVE_DONE"
SAVE_FAILED == "SAVE_FAILED"
SAVE_PACK_FAILED == "SAVE_PACK_FAILED"

SaveStyles == {CRLF_STYLE_AUTOMATIC, CRLF_STYLE_DOS, CRLF_STYLE_UNIX, CRLF_STYLE_MAC}

\* infoUnpacker: NULL, or a PackingInfo with its disallowMixedEOL field.
NoUnpacker == [present |-> FALSE, disallowMixedEOL |-> FALSE]
Unpackers == {NoUnpacker} \cup
             {[present |-> TRUE, disallowMixedEOL |-> b] : b \in BOOLEAN}

\* A save that never substitutes the buffer's recorded style.
EffectiveStyle_NeverSubstituted(nCrlfStyle, allowMixedEol, infoUnpacker, crlfMode) ==
    nCrlfStyle

\* The style the lines are written in (nCrlfStyle after the substitution).
EffectiveStyle(nCrlfStyle, allowMixedEol, infoUnpacker, crlfMode) ==
    IF (nCrlfStyle = CRLF_STYLE_AUTOMATIC /\ ~allowMixedEol)
       \/ (infoUnpacker.present /\ infoUnpacker.disallowMixedEOL)
    THEN crlfMode
    ELSE nCrlfStyle

\* A pack step whose failure goes unnoticed.
PackFailed_Ignored(flt) == FALSE

\* !FileTransform_Packing(csTempFileName, *infoUnpacker)
PackFailed(flt) == "pack" \in flt

\* What a packer that writes a new file puts into it.
Packed(data) == <<80>> \o data

\* The part of SaveToFile after file.Close() for a user file: the lines are in
\* the intermediate file tmp. copied says how much of the destination a
\* copyTo that throws has written: "none", "part" or "all".
SaveUserFile(dsk, flt, copied) ==
    IF PackFailed(flt)
    THEN [ret |-> SAVE_PACK_FAILED, done |-> FALSE,
          disk |-> RemoveFile(dsk, "tmp", flt),
          events |-> <<"Packing failed">> \o RemoveEvents("tmp", flt)]
    ELSE LET moved == "repath" \in flt
             d2 == IF moved
                   THEN RemoveFile([dsk EXCEPT !.packed = File(Packed(dsk.tmp.data))],
                                   "tmp", flt)
                   ELSE dsk
             e2 == <<"Packing ok">> \o (IF moved THEN RemoveEvents("tmp", flt) ELSE <<>>)
             inter == IF moved THEN "packed" ELSE "tmp"
             data == d2[inter].data
         IN  IF "copy" \in flt
             THEN [ret |-> SAVE_FAILED, done |-> FALSE,
                   disk |-> CASE copied = "none" -> d2
                              [] copied = "part" ->
                                   [d2 EXCEPT !.dest = File(SubSeq(data, 1, Len(data) \div 2))]
                              [] OTHER -> [d2 EXCEPT !.dest = File(data)],
                   events |-> e2 \o <<"copyTo dest", "LogError">>]
             ELSE LET d3 == [d2 EXCEPT !.dest = File(data)]
                  IN  IF "remove" \in flt
                      THEN [ret |-> SAVE_FAILED, done |-> FALSE, disk |-> d3,
                            events |-> e2 \o <<"copyTo dest">> \o RemoveEvents(inter, flt)]
                      ELSE [ret |-> SAVE_DONE, done |-> TRUE,
                            disk |-> [d3 EXCEPT ![inter] = Absent],
                            events |-> e2 \o <<"copyTo dest">> \o RemoveEvents(inter, flt)]

\* SaveToFile from the opening of the output file on; a is the argument
\* record, nLines and nCrlfStyle are the values after the first two steps.
SaveOutcome(a, nLines, nCrlfStyle, lines, dsk, flt, copied) ==
    LET written == SaveLines(lines, a.nStartLine, nLines, nCrlfStyle, a.bTempFile)
        content == FileContent(written)
        failed(ev) == [ret |-> SAVE_FAILED, done |-> FALSE, disk |-> dsk,
                       events |-> ev, written |-> <<>>]
    IN  IF a.bTempFile
        THEN IF "openWrite" \in flt
             THEN failed(<<"OpenCreate dest failed">>)
             ELSE [ret |-> SAVE_DONE, done |-> TRUE,
                   disk |-> [dsk EXCEPT !.dest = File(content)],
                   events |-> <<"OpenCreate dest", "Close">>, written |-> written]
        ELSE IF "tmpName" \in flt
             THEN failed(<<"GetTemporaryFileName failed">>)
             ELSE IF "openWrite" \in flt
                  THEN failed(<<"OpenCreate tmp failed">>)
                  ELSE LET u == SaveUserFile([dsk EXCEPT !.tmp = File(content)],
                                             flt, copied)
                       IN  [ret |-> u.ret, done |-> u.done, disk |-> u.disk,
                            events |-> <<"OpenCreate tmp", "Close">> \o u.events,
                            written |-> written]

\* A save that clears the modified flag whatever the caller asked for.
ClearsModified_Always(done, bClearModifiedFlag) == done

\* if (bClearModifiedFlag) { SetModified(false); m_nSyncPosition = ...; } on
\* the two paths that set bSaveSuccess.
ClearsModified(done, bClearModifiedFlag) == done /\ bClearModifiedFlag

\* A save that escapes the lines of the buffer themselves.
LinesAfterSave_EscapedInPlace(lines, events, bTempFile) ==
    IF bTempFile /\ events # <<>>
    THEN [k \in 1..Len(lines) |->
             [lines[k] EXCEPT !.text = EscapeControlChars(lines[k].text)]]
    ELSE lines

\* The line store after the call: the line loop copies the characters of a
\* line into sLine and escapes and writes that copy.
LinesAfterSave(lines, events, bTempFile) == lines

\* A save that remembers the revision number whenever it wrote a user file.
RecordsRevision_OnEveryReturn(done, bTempFile) == ~bTempFile

\* m_dwRevisionNumberOnSave = m_dwCurrentRevisionNumber: only where the
\* destination of a user file was replaced.
RecordsRevision(done, bTempFile) == done /\ ~bTempFile

SaveFaults == {"tmpName", "openWrite", "pack", "repath", "remove", "copy"}

\* One call of SaveToFile. copied says how much of the destination a copyTo
\* that throws has written.
SaveToFileCall(pszFileName, bTempFile, infoUnpacker, nCrlfStyle, bClearModifiedFlag, allowMixedEol, nStartLine, nLinesArg, copied) ==
    /\ m_bInit
    /\ LET a == [pszFileName |-> pszFileName, bTempFile |-> bTempFile,
                 infoUnpacker |-> infoUnpacker, nCrlfStyle |-> nCrlfStyle,
                 bClearModifiedFlag |-> bClearModifiedFlag,
                 allowMixedEol |-> allowMixedEol,
                 nStartLine |-> nStartLine, nLines |-> nLinesArg]
           nLines == IF nLinesArg = -1 THEN Len(m_aLines) - nStartLine
                     ELSE nLinesArg
           style == EffectiveStyle(nCrlfStyle, allowMixedEol, infoUnpacker,
                                   m_nCRLFMode)
           o == IF pszFileName = ""
                THEN [ret |-> SAVE_FAILED, done |-> FALSE, disk |-> disk,
                      events |-> <<>>, written |-> <<>>]
                ELSE SaveOutcome(a, nLines, style, m_aLines, disk, faults, copied)
       IN  /\ disk' = o.disk
           /\ m_aLines' = LinesAfterSave(m_aLines, o.events, bTempFile)
           /\ IF ClearsModified(o.done, bClearModifiedFlag)
              THEN /\ m_bModified' = FALSE
                   /\ docModified' = FALSE
                   /\ m_nSyncPosition' = m_nUndoPosition
              ELSE UNCHANGED <<m_bModified, docModified, m_nSyncPosition>>
           /\ m_dwRevisionNumberOnSave' =
                  IF RecordsRevision(o.done, bTempFile)
                  THEN m_dwCurrentRevisionNumber ELSE m_dwRevisionNumberOnSave
           /\ call' = [op |-> "SaveToFile", args |-> a, nLines |-> nLines,
                       style |-> style, ret |-> o.ret, events |-> o.events,
                       written |-> o.written, preLines |-> m_aLines,
                       preDisk |-> disk,
                       pre |-> [m_bModified |-> m_bModified,
                                docModified |-> docModified,
                                m_nSyncPosition |-> m_nSyncPosition,
                                m_nCRLFMode |-> m_nCRLFMode,
                                m_dwRevisionNumberOnSave |-> m_dwRevisionNumberOnSave,
                                m_encoding |-> m_encoding],
                       encoding |-> IF o.events = <<>>
                                       \/ o.events[1] = "GetTemporaryFileName failed"
                                    THEN "none" ELSE m_encoding]
    /\ UNCHANGED <<m_bInit, m_nCRLFMode, m_nThisPane, syncPointList,
                   faults, undoVars, m_dwCurrentRevisionNumber, m_encoding,
                   barVars>>

\* The unpackers a save can be given: a user-file save needs one.
UnpackersFor(bTempFile) == IF bTempFile THEN Unpackers ELSE Unpackers \ {NoUnpacker}
CopiedParts == IF "copy" \in faults THEN {"none", "part", "all"} ELSE {"all"}

SaveToFile ==
    \E bTempFile \in BOOLEAN, nCrlfStyle \in SaveStyles,
       bClearModifiedFlag \in BOOLEAN, allowMixedEol \in BOOLEAN,
       nStartLine \in 0..(Len(m_aLines) - 1) :
    \E infoUnpacker \in UnpackersFor(bTempFile),
       nLinesArg \in -1..(Len(m_aLines) - nStartLine),
       copied \in CopiedParts :
    \E pszFileName \in
           IF /\ ~infoUnpacker.disallowMixedEOL /\ allowMixedEol
              /\ nCrlfStyle = CRLF_STYLE_AUTOMATIC /\ nStartLine = 0
              /\ nLinesArg = -1 /\ copied = "all"
           THEN {"", "dest"} ELSE {"dest"} :
        SaveToFileCall(pszFileName, bTempFile, infoUnpacker, nCrlfStyle,
                       bClearModifiedFlag, allowMixedEol, nStartLine, nLinesArg,
                       copied)


\* ------------------------------------------------ OnNotifyLineHasBeenEdited
\* CCrystalTextBuffer::SetLineFlag(nLine, dwFlag, false, false, false): the
\* flag is cleared on that line, nothing else changes.
SetLineFlag(lines, nLine, dwFlag) ==
    [lines EXCEPT ![nLine + 1].flags = @ \ {dwFlag}]

\* The edit notification with the flag mask of prepareForRescan.
LineHasBeenEdited_RescanMask(lines, nLine) ==
    [lines EXCEPT ![nLine + 1].flags =
        @ \ {LF_INVISIBLE, LF_DIFF, LF_TRIVIAL, LF_MOVED, LF_SNP}]

\* The four SetLineFlag calls of OnNotifyLineHasBeenEdited; the base class
\* method called after them does nothing.
LineHasBeenEdited(lines, nLine) ==
    SetLineFlag(SetLineFlag(SetLineFlag(SetLineFlag(lines, nLine, LF_DIFF),
        nLine, LF_TRIVIAL), nLine, LF_MOVED), nLine, LF_SNP)

OnNotifyLineHasBeenEdited ==
    /\ m_bInit
    /\ \E nLine \in 0..(Len(m_aLines) - 1) :
        /\ m_aLines' = LineHasBeenEdited(m_aLines, nLine)
        /\ call' = [op |-> "OnNotifyLineHasBeenEdited", nLine |-> nLine,
                    preLines |-> m_aLines]
    /\ UNCHANGED <<m_bInit, m_bModified, m_nCRLFMode, m_nThisPane,
                   m_nSyncPosition, docModified, undoVars, revVars, m_encoding,
                   syncPointList, disk, faults,
                   barVars>>

\* ------------------------------------------------------------ AddUndoRecord
\* CGhostTextBuffer::AddUndoRecord: the records after the undo position (what
\* was left to redo) are dropped and one record is appended; it carries
\* UNDO_BEGINGROUP when it is the first record of its undo group. The undo
\* position is then the number of records.
BaseAddUndoRecord(buf, pos, bInsert, bBeginGroup) ==
    Append(SubSeq(buf, 1, pos),
           [flags |-> (IF bInsert THEN {UNDO_INSERT} ELSE {})
                      \cup (IF bBeginGroup THEN {UNDO_BEGINGROUP} ELSE {})])

\* Undo targets that are appended to without the erase from the cursor on.
UndoTargetsAfter_NoErase(tgt, cur, view) == Append(tgt, view)

\* undoTgt.erase(curUndo, undoTgt.end()); undoTgt.push_back(GetView(pane))
UndoTargetsAfter(tgt, cur, view) == Append(SubSeq(tgt, 1, cur), view)

\* The undo history after AddUndoRecord on the buffer of pane `pane`.
AddUndoRecordEffect(buf, pos, tgt, cur, pane, bInsert, bBeginGroup) ==
    LET b == BaseAddUndoRecord(buf, pos, bInsert, bBeginGroup)
        n == Len(b)
    IN  IF UNDO_BEGINGROUP \in b[n].flags
        THEN LET t == UndoTargetsAfter(tgt, cur, pane)
             IN  [buf |-> b, pos |-> n, tgt |-> t, cur |-> Len(t)]
        ELSE [buf |-> b, pos |-> n, tgt |-> tgt, cur |-> cur]

\* bBeginGroup is the base class's m_bUndoBeginGroup at the call: an undo
\* group is open, and the first record of a buffer opens one.
AddUndoRecord ==
    /\ m_bInit
    /\ m_nUndoPosition < MaxUndo
    /\ curUndo < MaxUndo
    /\ \E bInsert \in BOOLEAN, bBeginGroup \in BOOLEAN :
        /\ m_nUndoPosition = 0 => bBeginGroup
        /\ LET e == AddUndoRecordEffect(m_aUndoBuf, m_nUndoPosition, undoTgt,
                                        curUndo, m_nThisPane, bInsert, bBeginGroup)
           IN  /\ m_aUndoBuf' = e.buf
               /\ m_nUndoPosition' = e.pos
               /\ undoTgt' = e.tgt
               /\ curUndo' = e.cur
               /\ call' = [op |-> "AddUndoRecord", bInsert |-> bInsert,
                           bBeginGroup |-> bBeginGroup,
                           preTgt |-> undoTgt, preCur |-> curUndo]
    /\ UNCHANGED <<m_aLines, m_bInit, m_bModified, m_nCRLFMode, m_nThisPane,
                   m_nSyncPosition, docModified, revVars, m_encoding,
                   syncPointList, disk, faults,
                   barVars>>

\* AddUndoRecord on the buffer of another pane of the same document: a first
\* record of a group there changes the document's undo targets in the same
\* way.
AddUndoRecordOtherPane ==
    /\ m_bInit
    /\ curUndo < MaxUndo
    /\ \E pane \in {0, 1} \ {m_nThisPane} :
        /\ undoTgt' = UndoTargetsAfter(undoTgt, curUndo, pane)
        /\ curUndo' = Len(undoTgt')
        /\ call' = [op |-> "AddUndoRecordOtherPane", pane |-> pane,
                    preTgt |-> undoTgt, preCur |-> curUndo]
    /\ UNCHANGED <<m_aLines, m_bInit, m_bModified, m_nCRLFMode, m_nThisPane,
                   m_aUndoBuf, m_nUndoPosition, m_nSyncPosition, docModified,
                   revVars, m_encoding, syncPointList, disk, faults,
                   barVars>>

\* The undo position before the last applied undo group of the buffer.
GroupStart(buf, pos) ==
    LET starts == {k \in 1..pos : UNDO_BEGINGROUP \in buf[k].flags}
    IN  IF starts = {} THEN 0
        ELSE (CHOOSE k \in starts : \A j \in starts : j <= k) - 1

\* CMergeDoc's undo command: the cursor steps back over one undo target, and
\* the buffer of that target's view undoes its last group.
DocUndo ==
    /\ m_bInit
    /\ curUndo > 0
    /\ curUndo' = curUndo - 1
    /\ m_nUndoPosition' = IF undoTgt[curUndo] = m_nThisPane
                          THEN GroupStart(m_aUndoBuf, m_nUndoPosition)
                          ELSE m_nUndoPosition
    /\ call' = [op |-> "DocUndo"]
    /\ UNCHANGED <<m_aLines, m_bInit, m_bModified, m_nCRLFMode, m_nThisPane,
                   m_aUndoBuf, m_nSyncPosition, docModified, undoTgt,
                   revVars, m_encoding, syncPointList, disk, faults,
                   barVars>>

\* -------------------------------------------------------------- DeleteText2
\* With bHistory the base class records the deletion through AddUndoRecord, as
\* the first record of the undo group of the edit.
\* A sync point test that forgets where in its first line the delete starts.
SyncPointSpanned_AnyStartChar(nStartLine, nStartChar, nEndLine, nLineSyncPoint) ==
    nStartLine <= nLineSyncPoint /\ nLineSyncPoint < nEndLine

\* The condition under which DeleteText2 calls DeleteSyncPoint.
SyncPointSpanned(nStartLine, nStartChar, nEndLine, nLineSyncPoint) ==
    /\ \/ (nStartChar = 0 /\ nStartLine = nLineSyncPoint)
       \/ nStartLine < nLineSyncPoint
    /\ nLineSyncPoint < nEndLine

\* syncpnt[m_nThisPane]
SyncLine(syncpnt, pane) == syncpnt[pane + 1]

\* The DeleteSyncPoint calls of the loop over the sync point list, in order:
\* the line each call is given.
RECURSIVE DeleteSyncPointCalls(_, _, _, _, _)
DeleteSyncPointCalls(list, pane, nStartLine, nStartChar, nEndLine) ==
    IF list = <<>> THEN <<>>
    ELSE (IF SyncPointSpanned(nStartLine, nStartChar, nEndLine,
                              SyncLine(Head(list), pane))
          THEN <<SyncLine(Head(list), pane)>> ELSE <<>>)
         \o DeleteSyncPointCalls(Tail(list), pane, nStartLine, nStartChar, nEndLine)

\* CMergeDoc::DeleteSyncPoint(pane, nLine, false): the sync points at that
\* line of that pane are no longer in the list.
DeleteSyncPoint(list, pane, nLine) ==
    SelectSeq(list, LAMBDA sp : SyncLine(sp, pane) # nLine)

RECURSIVE DeleteSyncPoints(_, _, _)
DeleteSyncPoints(list, pane, callLines) ==
    IF callLines = <<>> THEN list
    ELSE DeleteSyncPoints(DeleteSyncPoint(list, pane, Head(callLines)), pane,
                          Tail(callLines))

\* CGhostTextBuffer::DeleteText2 on the lines: the text from (nStartLine,
\* nStartChar) to (nEndLine, nEndChar) is removed, what is left of the two
\* lines becomes one line with the EOL marker of the end line.
BaseDeleteText(lines, nStartLine, nStartChar, nEndLine, nEndChar) ==
    LET first == LineAt(lines, nStartLine)
        last == LineAt(lines, nEndLine)
        merged == [text |-> SubSeq(first.text, 1, nStartChar)
                            \o SubSeq(last.text, nEndChar + 1, Len(last.text)),
                   eol |-> last.eol, flags |-> first.flags]
    IN  SubSeq(lines, 1, nStartLine) \o <<merged>>
        \o SubSeq(lines, nEndLine + 2, Len(lines))

DeleteText2 ==
    /\ m_bInit
    /\ \E nStartLine \in 0..(Len(m_aLines) - 1), nEndLine \in 0..(Len(m_aLines) - 1) :
       \E nStartChar \in 0..Len(GetLineChars(m_aLines, nStartLine)),
          nEndChar \in 0..Len(GetLineChars(m_aLines, nEndLine)) :
        /\ nStartLine < nEndLine \/ (nStartLine = nEndLine /\ nStartChar <= nEndChar)
        /\ \E bHistory \in BOOLEAN :
            LET e == IF bHistory /\ m_nUndoPosition < MaxUndo /\ curUndo < MaxUndo
                     THEN AddUndoRecordEffect(m_aUndoBuf, m_nUndoPosition, undoTgt,
                                              curUndo, m_nThisPane, FALSE, TRUE)
                     ELSE [buf |-> m_aUndoBuf, pos |-> m_nUndoPosition,
                           tgt |-> undoTgt, cur |-> curUndo]
            IN  /\ m_aUndoBuf' = e.buf
                /\ m_nUndoPosition' = e.pos
                /\ undoTgt' = e.tgt
                /\ curUndo' = e.cur
        /\ LET calls == DeleteSyncPointCalls(syncPointList, m_nThisPane,
                                             nStartLine, nStartChar, nEndLine)
           IN  /\ syncPointList' = DeleteSyncPoints(syncPointList, m_nThisPane, calls)
               /\ m_aLines' = BaseDeleteText(m_aLines, nStartLine, nStartChar,
                                             nEndLine, nEndChar)
               /\ call' = [op |-> "DeleteText2", nStartLine |-> nStartLine,
                           nStartChar |-> nStartChar, nEndLine |-> nEndLine,
                           nEndChar |-> nEndChar, deleted |-> calls,
                           events |-> [k \in 1..Len(calls) |-> "DeleteSyncPoint"]
                                      \o <<"CGhostTextBuffer::DeleteText2">>,
                           preSync |-> syncPointList, preLines |-> m_aLines]
    /\ m_bModified' = TRUE
    /\ docModified' = TRUE
    /\ m_dwCurrentRevisionNumber' = m_dwCurrentRevisionNumber + 1
    /\ UNCHANGED <<m_bInit, m_nCRLFMode, m_nThisPane, m_nSyncPosition,
                   m_dwRevisionNumberOnSave, m_encoding, disk, faults,
                   barVars>>


\* --------------------------------------------------------- ReplaceFullLines
GetLineLength(lines, line) == Len(GetLineChars(lines, line))
GetFullLineLength(lines, line) ==
    Len(GetLineChars(lines, line)) + Len(GetLineEol(lines, line))

\* CGhostTextBuffer::GetTextWithoutEmptys from (nStartLine, 0) to (nEndLine,
\* nEndChar) of a buffer without ghost lines: the lines before nEndLine with
\* their EOL markers, then the first nEndChar characters of line nEndLine.
RECURSIVE GetTextWithoutEmptys(_, _, _, _)
GetTextWithoutEmptys(lines, nStartLine, nEndLine, nEndChar) ==
    IF nStartLine = nEndLine
    THEN SubSeq(GetLineChars(lines, nEndLine), 1, nEndChar)
    ELSE GetLineChars(lines, nStartLine) \o GetLineEol(lines, nStartLine)
         \o GetTextWithoutEmptys(lines, nStartLine + 1, nEndLine, nEndChar)

\* CCrystalTextBuffer::InsertText at (nLine, nPos): the text is cut at its
\* EOL markers; its first piece continues the line up to nPos, each marker
\* ends a line, and what followed nPos continues the last piece and keeps the
\* EOL marker of the line.
InsertText(lines, nLine, nPos, text) ==
    LET cur == LineAt(lines, nLine)
        prefix == SubSeq(cur.text, 1, nPos)
        suffix == SubSeq(cur.text, nPos + 1, Len(cur.text))
        pieces == LoadedLines(text)
        k == Len(pieces)
        new == IF k = 1
               THEN <<[cur EXCEPT !.text = prefix \o pieces[1].text \o suffix]>>
               ELSE <<[cur EXCEPT !.text = prefix \o pieces[1].text,
                                  !.eol = pieces[1].eol]>>
                    \o SubSeq(pieces, 2, k - 1)
                    \o <<[text |-> pieces[k].text \o suffix, eol |-> cur.eol,
                          flags |-> {}]>>
    IN  SubSeq(lines, 1, nLine) \o new \o SubSeq(lines, nLine + 2, Len(lines))

\* What a build can make of DeleteText up to (nEndLine, 0) when dbuf has no
\* line nEndLine (a read past the end of the line array): the call is
\* aborted, or the missing line is taken for an empty one.
PastEndOutcomes == {"abort", "empty line"}

\* ReplaceFullLines on the lines of dbuf. nThisLineCount is GetLineCount() of
\* the object the method is called on, outcome the outcome of a delete past
\* the end of dbuf. The result gives the lines of dbuf, the calls made on dbuf
\* in their order and whether the call was aborted.
ReplaceFullLinesResult(dbuf, sbuf, nThisLineCount, nLineBegin, nLineEnd, outcome) ==
    LET head == IF nLineBegin # nLineEnd \/ GetLineLength(sbuf, nLineEnd) > 0
                THEN GetTextWithoutEmptys(sbuf, nLineBegin, nLineEnd,
                                          GetLineLength(sbuf, nLineEnd))
                ELSE <<>>
        strText == head \o GetLineEol(sbuf, nLineEnd)
        deletes == nLineBegin # nLineEnd \/ GetFullLineLength(dbuf, nLineEnd) > 0
        nLineEndSource == IF nLineEnd < Len(dbuf) THEN nLineEnd ELSE Len(dbuf)
        wholeLines == nLineEnd + 1 < nThisLineCount
        pastEnd == deletes /\ wholeLines /\ nLineEndSource + 1 >= Len(dbuf)
        aborted == pastEnd /\ outcome = "abort"
        deleted ==
            IF ~deletes \/ aborted THEN dbuf
            ELSE IF pastEnd
                 THEN BaseDeleteText(Append(dbuf, NewLine(<<>>, EolNone)),
                                     nLineBegin, 0, nLineEndSource + 1, 0)
                 ELSE IF wholeLines
                      THEN BaseDeleteText(dbuf, nLineBegin, 0, nLineEndSource + 1, 0)
                      ELSE BaseDeleteText(dbuf, nLineBegin, 0, nLineEndSource,
                                          GetLineLength(dbuf, nLineEndSource))
        inserts == ~aborted /\ Len(strText) > 0
    IN  [lines |-> IF inserts THEN InsertText(deleted, nLineBegin, 0, strText)
                   ELSE deleted,
         events |-> (IF deletes THEN <<"DeleteText">> ELSE <<>>)
                    \o (IF inserts THEN <<"InsertText">> ELSE <<>>),
         aborted |-> aborted]

\* The buffers of ReplaceFullLines: line k is empty or holds a letter and the
\* digit k; every line but the last ends with the EOL marker given.
ReplaceBuffers(letter, eol) ==
    {[k \in 1..n |-> NewLine(IF k \in full THEN <<letter, 48 + k>> ELSE <<>>,
                             IF k = n THEN EolNone ELSE eol)] :
        <<n, full>> \in UNION {{<<n, f>> : f \in SUBSET (1..n)} : n \in 1..MaxLines}}

\* dbuf is this buffer; the method is called on dbuf or on sbuf. DeleteText
\* and InsertText record themselves through AddUndoRecord, in one undo group.
ReplaceFullLines ==
    /\ m_bInit
    /\ m_nUndoPosition + 2 <= MaxUndo
    /\ curUndo < MaxUndo
    /\ \E sbuf \in ReplaceBuffers(115, EolCRLF), self \in {"dbuf", "sbuf"},
          outcome \in PastEndOutcomes :
       \E nLineEnd \in 0..(Len(m_aLines) - 1) :
       \E nLineBegin \in 0..nLineEnd :
        /\ nLineEnd < Len(sbuf)
        /\ \E r \in {ReplaceFullLinesResult(m_aLines, sbuf,
                        IF self = "dbuf" THEN Len(m_aLines) ELSE Len(sbuf),
                        nLineBegin, nLineEnd, outcome)} :
           \E d \in {IF r.events # <<>> /\ Head(r.events) = "DeleteText" /\ ~r.aborted
                     THEN AddUndoRecordEffect(m_aUndoBuf, m_nUndoPosition, undoTgt,
                                              curUndo, m_nThisPane, FALSE, TRUE)
                     ELSE [buf |-> m_aUndoBuf, pos |-> m_nUndoPosition,
                           tgt |-> undoTgt, cur |-> curUndo]} :
           \E e \in {IF r.events # <<>> /\ r.events[Len(r.events)] = "InsertText"
                     THEN AddUndoRecordEffect(d.buf, d.pos, d.tgt, d.cur, m_nThisPane,
                                              TRUE, d.pos = m_nUndoPosition)
                     ELSE d} :
            /\ m_aLines' = r.lines
            /\ m_bModified' = (m_bModified \/ e.pos # m_nUndoPosition)
            /\ docModified' = (docModified \/ e.pos # m_nUndoPosition)
            /\ m_aUndoBuf' = e.buf
            /\ m_nUndoPosition' = e.pos
            /\ undoTgt' = e.tgt
            /\ curUndo' = e.cur
            /\ m_dwCurrentRevisionNumber' =
                   m_dwCurrentRevisionNumber + (e.pos - m_nUndoPosition)
            /\ call' = [op |-> "ReplaceFullLines", sbuf |-> sbuf, self |-> self,
                        nLineBegin |-> nLineBegin, nLineEnd |-> nLineEnd,
                        preLines |-> m_aLines, events |-> r.events,
                        aborted |-> r.aborted]
    /\ UNCHANGED <<m_bInit, m_nCRLFMode, m_nThisPane, m_nSyncPosition,
                   m_dwRevisionNumberOnSave, m_encoding, syncPointList, disk, faults,
                   barVars>>


\* ------------------------------------------------- the two pure functions
\* GetTextFileStyle and IsTextFileStylePure applied to the statistics drawn.
ClassifyStats ==
    /\ call.op = "stats"
    /\ call' = [op |-> "GetTextFileStyle", stats |-> call.stats,
                pure |-> IsTextFileStylePure(call.stats),
                style |-> GetTextFileStyle(call.stats)]
    /\ UNCHANGED <<m_aLines, m_bInit, m_bModified, m_nCRLFMode, m_nThisPane,
                   m_nSyncPosition, docModified, undoVars, revVars, m_encoding,
                   syncPointList, disk, faults,
                   barVars>>

\* EscapeControlChars applied to the line drawn.
EscapeLine ==
    /\ call.op = "line"
    /\ call' = [op |-> "EscapeControlChars", s |-> call.s,
                out |-> EscapeControlChars(call.s)]
    /\ UNCHANGED <<m_aLines, m_bInit, m_bModified, m_nCRLFMode, m_nThisPane,
                   m_nSyncPosition, docModified, undoVars, revVars, m_encoding,
                   syncPointList, disk, faults,
                   barVars>>

\* ------------------------------------------------- DirCompProgressBar
\* The states of a folder compare as CompareStats reports them.
STATE_IDLE == "STATE_IDLE"
STATE_START == "STATE_START"
STATE_COMPARE == "STATE_COMPARE"
CMP_STATE == {STATE_IDLE, STATE_START, STATE_COMPARE}

\* The timer of the progress bar, and a timer of the base class.
IDT_UPDATE == 1
IDT_BASE == 2

\* The statistics before a compare: idle, nothing collected, not done.
StatsReset == [state |-> STATE_IDLE, done |-> FALSE, compared |-> 0, total |-> 0]

\* The two counters of the dialog as SetProgressState leaves them.
SetProgressState(comparedItems, totalItems) == [compared |-> comparedItems, total |-> totalItems]

\* The progress bar as its constructor leaves it; the statistics object of
\* the document has not run a compare.
BarConstructed ==
    /\ m_bCompareReady = FALSE
    /\ m_prevState = STATE_IDLE
    /\ timerSet = FALSE
    /\ dlgItems = SetProgressState(0, 0)
    /\ compareStats = StatsReset
    /\ nStartUpdating = 0
    /\ nEndUpdating = 0

\* The branch of OnTimer that a tick of the update timer takes.
TimerBranch(prev, state, ready, done) ==
    IF prev = STATE_IDLE /\ state = STATE_START THEN "started"
    ELSE IF prev = STATE_START /\ state = STATE_START THEN "collecting"
    ELSE IF prev \in {STATE_START, STATE_IDLE} /\ state = STATE_COMPARE THEN "begin"
    ELSE IF prev = STATE_COMPARE /\ state = STATE_COMPARE THEN "comparing"
    ELSE IF state = STATE_IDLE /\ ready = FALSE /\ done THEN "ready"
    ELSE "none"

\* StartUpdating: ClearStat zeroes the fields and m_prevState, then the
\* timer is set.  The document calls it when it starts a compare: no compare
\* is running, the statistics are reset and the timer is not running.
StartUpdating ==
    /\ nStartUpdating < MaxStarts
    /\ ~timerSet
    /\ compareStats = StatsReset
    /\ dlgItems' = SetProgressState(0, 0)
    /\ m_prevState' = STATE_IDLE
    /\ timerSet' = TRUE
    /\ nStartUpdating' = nStartUpdating + 1
    /\ nEndUpdating' = 0
    /\ call' = [op |-> "StartUpdating"]
    /\ UNCHANGED <<m_bCompareReady, compareStats, bufferVars>>

\* OnTimer: a tick of the update timer shows the statistics and follows the
\* compare state; the tick that finds the compare done calls EndUpdating,
\* which kills the timer.  A tick of another timer goes to the base class.
OnTimerCall(nIDEvent) ==
    /\ nIDEvent = IDT_UPDATE => timerSet
    /\ \E b \in {IF nIDEvent = IDT_UPDATE THEN TimerBranch(m_prevState, compareStats.state, m_bCompareReady, compareStats.done) ELSE "base"} :
        /\ m_prevState' = CASE b = "started" -> STATE_START
                            [] b \in {"begin", "ready"} -> STATE_COMPARE
                            [] OTHER -> m_prevState
        /\ dlgItems' = CASE b = "collecting" -> SetProgressState(0, compareStats.total)
                         [] b \in {"begin", "comparing", "ready"} -> SetProgressState(compareStats.compared, compareStats.total)
                         [] OTHER -> dlgItems
        /\ timerSet' = IF b = "ready" THEN FALSE ELSE timerSet
        /\ nEndUpdating' = IF b = "ready" THEN nEndUpdating + 1 ELSE nEndUpdating
        /\ m_bCompareReady' = IF b = "ready" THEN TRUE ELSE m_bCompareReady
        /\ call' = [op |-> "OnTimer", nIDEvent |-> nIDEvent, branch |-> b]
    /\ UNCHANGED <<compareStats, nStartUpdating, bufferVars>>

OnTimer == \E nIDEvent \in {IDT_UPDATE, IDT_BASE} : OnTimerCall(nIDEvent)

\* The compare thread, started by the document after StartUpdating: it
\* enters STATE_START and collects the items, enters STATE_COMPARE and
\* compares them, and returns to STATE_IDLE with the compare done.
CompareStep ==
    /\ timerSet
    /\ ~compareStats.done
    /\ \/ /\ compareStats.state = STATE_IDLE
          /\ compareStats' = [compareStats EXCEPT !.state = STATE_START]
       \/ /\ compareStats.state = STATE_START
          /\ compareStats.total < MaxItems
          /\ compareStats' = [compareStats EXCEPT !.total = @ + 1]
       \/ /\ compareStats.state = STATE_START
          /\ compareStats' = [compareStats EXCEPT !.state = STATE_COMPARE]
       \/ /\ compareStats.state = STATE_COMPARE
          /\ compareStats.compared < compareStats.total
          /\ compareStats' = [compareStats EXCEPT !.compared = @ + 1]
       \/ /\ compareStats.state = STATE_COMPARE
          /\ compareStats.compared = compareStats.total
          /\ compareStats' = [compareStats EXCEPT !.state = STATE_IDLE, !.done = TRUE]
    /\ call' = [op |-> "CompareStep"]
    /\ UNCHANGED <<m_bCompareReady, m_prevState, timerSet, dlgItems,
                   nStartUpdating, nEndUpdating, bufferVars>>

\* The document resets the statistics before it starts the next compare,
\* after the progress bar of the previous one has stopped.
CompareReset ==
    /\ compareStats.done
    /\ ~timerSet
    /\ compareStats' = StatsReset
    /\ call' = [op |-> "CompareReset"]
    /\ UNCHANGED <<m_bCompareReady, m_prevState, timerSet, dlgItems,
                   nStartUpdating, nEndUpdating, bufferVars>>

\* ------------------------------------------------------------ initial states
\* Characters of the files loaded: 'a', 'b', CR, LF.
FileAlphabet == {97, 98, 13, 10}
FileContents == SeqUpTo(FileAlphabet, MaxFileLen)

\* Characters of the lines escaped: 0x01, TAB, 0x0F, backslash, '0', 'f', 'A'.
EscAlphabet == {1, TAB, LEADIN, LEADOUT, 48, 102, 65}

StatsTriples == [ncrlfs : 0..MaxCount, ncrs : 0..MaxCount, nlfs : 0..MaxCount]

\* A buffer after a load and a rescan: ghost lines are empty and have no EOL
\* marker; the last real line has no EOL marker, every real line before it has
\* one; there is at least one real line. The text of the real line at index k
\* is k letters, which tells the lines of an output apart.
GhostLine == [text |-> <<>>, eol |-> EolNone, flags |-> {LF_GHOST}]
TextOf(k) == [j \in 1..k |-> 97]
LineShapes == {[ghost |-> TRUE, eol |-> EolNone]} \cup
              {[ghost |-> FALSE, eol |-> e] : e \in Eols \cup {EolNone}}
ShapedBuffer(shape) ==
    [k \in 1..Len(shape) |-> IF shape[k].ghost THEN GhostLine
                             ELSE NewLine(TextOf(k - 1), shape[k].eol)]
WellFormed(lines) ==
    LET last == ApparentLastRealLine(lines)
    IN  /\ last # -1
        /\ \A k \in 0..(Len(lines) - 1) :
             LF_GHOST \notin GetLineFlags(lines, k) =>
                 (GetLineEol(lines, k) = EolNone <=> k = last)
SaveBuffers ==
    {b \in {ShapedBuffer(sh) : sh \in UNION {[1..n -> LineShapes] : n \in 1..MaxLines}} :
        WellFormed(b)}

\* The load of a file: a constructed buffer, a file to load, and what fails.
Init ==
    /\ Constructed
    /\ BarConstructed
    /\ disk \in {[NoFiles EXCEPT !.src = File(c)] : c \in FileContents}
    /\ faults \in {{}, {"unpack"}, {"openRead"}, {"remove"}, {"openRead", "remove"}}
    /\ call = NoCall

\* The save of a buffer with ghost lines, in an environment where nothing
\* fails. The buffer was edited once since it was loaded: one undo record,
\* one undo target of the document, both modified flags set.
InitSave ==
    /\ m_aLines \in SaveBuffers
    /\ m_bInit = TRUE
    /\ m_bModified = TRUE
    /\ m_nCRLFMode \in {CRLF_STYLE_DOS, CRLF_STYLE_MIXED}
    /\ m_nThisPane = 0
    /\ m_aUndoBuf = <<[flags |-> {UNDO_BEGINGROUP}]>>
    /\ m_nUndoPosition = 1
    /\ m_nSyncPosition = 0
    /\ docModified = TRUE
    /\ undoTgt = <<0>>
    /\ curUndo = 1
    /\ m_dwCurrentRevisionNumber = 1
    /\ m_dwRevisionNumberOnSave = 0
    /\ m_encoding = Encoding8Bit
    /\ BarConstructed
    /\ syncPointList = <<>>
    /\ disk = NoFiles
    /\ faults = {}
    /\ call = NoCall

\* The save of a two-line buffer over a destination that exists or not, in
\* every environment: any set of the steps of a save may fail.
InitSaveFaults ==
    /\ m_aLines = <<NewLine(<<97>>, EolLF), NewLine(<<98>>, EolNone)>>
    /\ m_bInit = TRUE
    /\ m_bModified = TRUE
    /\ m_nCRLFMode = CRLF_STYLE_DOS
    /\ m_nThisPane = 0
    /\ m_aUndoBuf = <<[flags |-> {UNDO_BEGINGROUP}]>>
    /\ m_nUndoPosition = 1
    /\ m_nSyncPosition = 0
    /\ docModified = TRUE
    /\ undoTgt = <<0>>
    /\ curUndo = 1
    /\ m_dwCurrentRevisionNumber = 1
    /\ m_dwRevisionNumberOnSave = 0
    /\ m_encoding = EncodingUtf8Bom
    /\ BarConstructed
    /\ syncPointList = <<>>
    /\ disk \in {NoFiles, [NoFiles EXCEPT !.dest = File(<<111, 108, 100>>)]}
    /\ faults \in SUBSET SaveFaults
    /\ call = NoCall

\* Buffers with flags: one line has any set of flags, every other line has no
\* flag or all of them. Ghost lines are empty, and the last real line has no
\* EOL marker.
FlaggedBuffer(fl) ==
    LET real == {k \in 1..Len(fl) : LF_GHOST \notin fl[k]}
        last == IF real = {} THEN 0 ELSE CHOOSE k \in real : \A j \in real : j <= k
    IN  [k \in 1..Len(fl) |->
            [text |-> IF k \in real THEN TextOf(k - 1) ELSE <<>>,
             eol |-> IF k \in real /\ k # last THEN EolLF ELSE EolNone,
             flags |-> fl[k]]]
FlagBuffers ==
    {FlaggedBuffer([k \in 1..n |-> IF k = j THEN f ELSE g[k]]) :
        <<n, j, f, g>> \in
            UNION {{<<n, j, f, g>> : j \in 1..n, f \in SUBSET Flags,
                                     g \in [1..n -> {{}, Flags}]} : n \in 1..MaxLines}}

InitFlags ==
    /\ m_aLines \in {b \in FlagBuffers : ApparentLastRealLine(b) # -1}
    /\ m_bInit = TRUE
    /\ m_bModified = FALSE
    /\ m_nCRLFMode = CRLF_STYLE_DOS
    /\ m_nThisPane = 0
    /\ m_aUndoBuf = <<>>
    /\ m_nUndoPosition = 0
    /\ m_nSyncPosition = 0
    /\ docModified = FALSE
    /\ undoTgt = <<>>
    /\ curUndo = 0
    /\ m_dwCurrentRevisionNumber = 0
    /\ m_dwRevisionNumberOnSave = 0
    /\ m_encoding = Encoding8Bit
    /\ BarConstructed
    /\ syncPointList = <<>>
    /\ disk = NoFiles
    /\ faults = {}
    /\ call = NoCall

\* Buffers of one-letter lines with the sync points of a two-pane document:
\* a sync point is <<line in pane 0, line in pane 1>>, and the list is in
\* line order in both panes.
Panes == {0, 1}
PlainBuffer(n) ==
    [k \in 1..n |-> NewLine(<<97>>, IF k = n THEN EolNone ELSE EolLF)]
SyncLists(n) ==
    {l \in SeqUpTo((0..(n - 1)) \X (0..(n - 1)), MaxSync) :
        \A i \in 1..(Len(l) - 1) : l[i][1] < l[i + 1][1] /\ l[i][2] < l[i + 1][2]}

InitSync ==
    /\ \E n \in 1..MaxLines :
        /\ m_aLines = PlainBuffer(n)
        /\ syncPointList \in SyncLists(n)
    /\ m_bInit = TRUE
    /\ m_bModified = FALSE
    /\ m_nCRLFMode = CRLF_STYLE_DOS
    /\ m_nThisPane \in Panes
    /\ m_aUndoBuf = <<>>
    /\ m_nUndoPosition = 0
    /\ m_nSyncPosition = 0
    /\ docModified = FALSE
    /\ undoTgt = <<>>
    /\ curUndo = 0
    /\ m_dwCurrentRevisionNumber = 0
    /\ m_dwRevisionNumberOnSave = 0
    /\ m_encoding = Encoding8Bit
    /\ BarConstructed
    /\ disk = NoFiles
    /\ faults = {}
    /\ call = NoCall

InitStyle ==
    /\ Constructed
    /\ BarConstructed
    /\ disk = NoFiles
    /\ faults = {}
    /\ call \in {[op |-> "stats", stats |-> t] : t \in StatsTriples}

InitEscape ==
    /\ Constructed
    /\ BarConstructed
    /\ disk = NoFiles
    /\ faults = {}
    /\ call \in {[op |-> "line", s |-> t] : t \in SeqUpTo(EscAlphabet, MaxLen)}

Next == LoadFromFile
Spec == Init /\ [][Next]_vars

NextSave == call.op = "none" /\ SaveToFile
SpecSave == InitSave /\ [][NextSave]_vars

NextStyle == ClassifyStats
SpecStyle == InitStyle /\ [][NextStyle]_vars

NextEscape == EscapeLine
SpecEscape == InitEscape /\ [][NextEscape]_vars


NextSaveFaults == call.op = "none" /\ SaveToFile
SpecSaveFaults == InitSaveFaults /\ [][NextSaveFaults]_vars

\* A load without losses from the file itself, then one save of the whole
\* buffer that clears the modified flag.
RoundTripContents == SeqUpTo({97, 13, 10}, MaxFileLen)
InitLoadSave ==
    /\ Constructed
    /\ BarConstructed
    /\ disk \in {[NoFiles EXCEPT !.src = File(c)] : c \in RoundTripContents}
    /\ faults = {}
    /\ call = NoCall
NextLoadSave ==
    \/ \E nCrlfStyle \in LoadStyles :
           LoadFromFileCall(nCrlfStyle, FALSE, 0, FALSE, EncodingUtf8Bom)
    \/ /\ call.op = "LoadFromFile"
       /\ \E bTempFile \in BOOLEAN, nCrlfStyle \in SaveStyles,
             allowMixedEol \in BOOLEAN :
          \E infoUnpacker \in UnpackersFor(bTempFile) :
              SaveToFileCall("dest", bTempFile, infoUnpacker, nCrlfStyle,
                             TRUE, allowMixedEol, 0, -1, "all")
SpecLoadSave == InitLoadSave /\ [][NextLoadSave]_vars

\* The save of a two-line buffer whose lines hold control characters: the
\* first line is any text over 0x01, TAB and 'a', the second is 0x0F.
ControlAlphabet == {1, TAB, 97}
ControlBuffers ==
    {<<NewLine(t, e), NewLine(<<LEADIN>>, EolNone)>> :
        t \in SeqUpTo(ControlAlphabet, MaxLen), e \in {EolLF, EolCRLF}}
InitSaveControl ==
    /\ m_aLines \in ControlBuffers
    /\ m_bInit = TRUE
    /\ m_bModified = TRUE
    /\ m_nCRLFMode = CRLF_STYLE_UNIX
    /\ m_nThisPane = 0
    /\ m_aUndoBuf = <<[flags |-> {UNDO_BEGINGROUP}]>>
    /\ m_nUndoPosition = 1
    /\ m_nSyncPosition = 0
    /\ docModified = TRUE
    /\ undoTgt = <<0>>
    /\ curUndo = 1
    /\ m_dwCurrentRevisionNumber = 1
    /\ m_dwRevisionNumberOnSave = 0
    /\ m_encoding \in Encodings
    /\ BarConstructed
    /\ syncPointList = <<>>
    /\ disk = NoFiles
    /\ faults = {}
    /\ call = NoCall
NextSaveControl ==
    /\ call.op = "none"
    /\ \E bTempFile \in BOOLEAN, nCrlfStyle \in SaveStyles,
          allowMixedEol \in BOOLEAN :
       \E infoUnpacker \in UnpackersFor(bTempFile) :
           SaveToFileCall("dest", bTempFile, infoUnpacker, nCrlfStyle,
                          TRUE, allowMixedEol, 0, -1, "all")
SpecSaveControl == InitSaveControl /\ [][NextSaveControl]_vars

\* The save of a buffer with control characters, line flags and a ghost line,
\* loaded from a file of either encoding, in an environment where nothing or
\* one step of the save fails.
FrameBuffer ==
    <<[text |-> <<1, TAB>>, eol |-> EolCRLF, flags |-> {LF_DIFF}],
      GhostLine,
      [text |-> <<LEADIN>>, eol |-> EolNone, flags |-> {LF_MOVED}]>>
InitSaveFrame ==
    /\ m_aLines = FrameBuffer
    /\ m_bInit = TRUE
    /\ m_bModified = TRUE
    /\ m_nCRLFMode = CRLF_STYLE_DOS
    /\ m_nThisPane = 0
    /\ m_aUndoBuf = <<[flags |-> {UNDO_BEGINGROUP}]>>
    /\ m_nUndoPosition = 1
    /\ m_nSyncPosition = 0
    /\ docModified = TRUE
    /\ undoTgt = <<0>>
    /\ curUndo = 1
    /\ m_dwCurrentRevisionNumber = 1
    /\ m_dwRevisionNumberOnSave = 0
    /\ m_encoding \in Encodings
    /\ BarConstructed
    /\ syncPointList = <<>>
    /\ disk = NoFiles
    /\ faults \in {{}} \cup {{f} : f \in SaveFaults}
    /\ call = NoCall
NextSaveFrame == call.op = "none" /\ SaveToFile
SpecSaveFrame == InitSaveFrame /\ [][NextSaveFrame]_vars

NextFlags == OnNotifyLineHasBeenEdited
SpecFlags == InitFlags /\ [][NextFlags]_vars

\* A loaded buffer of one line in a two-pane document, edited and undone.
InitUndo ==
    /\ m_aLines = PlainBuffer(1)
    /\ m_bInit = TRUE
    /\ m_bModified = FALSE
    /\ m_nCRLFMode = CRLF_STYLE_DOS
    /\ m_nThisPane \in Panes
    /\ m_aUndoBuf = <<>>
    /\ m_nUndoPosition = 0
    /\ m_nSyncPosition = 0
    /\ docModified = FALSE
    /\ undoTgt = <<>>
    /\ curUndo = 0
    /\ m_dwCurrentRevisionNumber = 0
    /\ m_dwRevisionNumberOnSave = 0
    /\ m_encoding = Encoding8Bit
    /\ BarConstructed
    /\ syncPointList = <<>>
    /\ disk = NoFiles
    /\ faults = {}
    /\ call = NoCall
NextUndo == AddUndoRecord \/ AddUndoRecordOtherPane \/ DocUndo
SpecUndo == InitUndo /\ [][NextUndo]_vars

\* A loaded, unedited buffer that is the destination of a line-range replace.
InitReplace ==
    /\ m_aLines \in ReplaceBuffers(100, EolLF)
    /\ m_bInit = TRUE
    /\ m_bModified = FALSE
    /\ m_nCRLFMode = CRLF_STYLE_MIXED
    /\ m_nThisPane = 0
    /\ m_aUndoBuf = <<>>
    /\ m_nUndoPosition = 0
    /\ m_nSyncPosition = 0
    /\ docModified = FALSE
    /\ undoTgt = <<>>
    /\ curUndo = 0
    /\ m_dwCurrentRevisionNumber = 0
    /\ m_dwRevisionNumberOnSave = 0
    /\ m_encoding = Encoding8Bit
    /\ BarConstructed
    /\ syncPointList = <<>>
    /\ disk = NoFiles
    /\ faults = {}
    /\ call = NoCall
NextReplace == call.op = "none" /\ ReplaceFullLines
SpecReplace == InitReplace /\ [][NextReplace]_vars

NextSync == call.op = "none" /\ DeleteText2
SpecSync == InitSync /\ [][NextSync]_vars


\* A progress bar that shows one folder compare after the other; the update
\* timer set by StartUpdating keeps firing while it is set.
InitBar ==
    /\ Constructed
    /\ BarConstructed
    /\ disk = NoFiles
    /\ faults = {}
    /\ call = NoCall
NextBar == StartUpdating \/ OnTimer \/ CompareStep \/ CompareReset
SpecBar == InitBar /\ [][NextBar]_vars /\ WF_vars(OnTimerCall(IDT_UPDATE))


\* ================================================================== claims

\* ---- C1: the lines of a loaded file
Loaded == call.op = "LoadFromFile" /\ call.ret \in {FRESULT_OK, FRESULT_OK_IMPURE}

\* The number of line terminators of a file content: every LF, and every CR
\* that no LF follows.
Terminators(content) ==
    Cardinality({i \in 1..Len(content) :
        \/ content[i] = 10
        \/ content[i] = 13 /\ ~(i < Len(content) /\ content[i + 1] = 10)})

RECURSIVE JoinLines(_)
JoinLines(lines) ==
    IF lines = <<>> THEN <<>>
    ELSE Head(lines).text \o Head(lines).eol \o JoinLines(Tail(lines))

\* C1: a successful LoadFromFile of a content with k terminated lines and a
\* (possibly empty) unterminated tail yields exactly k + 1 lines in file
\* order: k lines with their text and their own non-empty EOL marker, then
\* one line holding the tail with an empty EOL marker.
C1_LoadYieldsKPlusOneLines ==
    Loaded =>
        LET content == disk.src.data
            k == Terminators(content)
        IN  /\ Len(m_aLines) = k + 1
            /\ JoinLines(m_aLines) = content
            /\ \A i \in 1..Len(m_aLines) :
                 /\ \A j \in 1..Len(m_aLines[i].text) : m_aLines[i].text[j] \notin {13, 10}
                 /\ i <= k => m_aLines[i].eol \in Eols
                 /\ i = k + 1 => m_aLines[i].eol = EolNone

\* C1 witness: "a\nb\n" was loaded into three lines, the last one empty.
W_C1_TrailingNewline ==
    /\ Loaded
    /\ disk.src.data = <<97, 10, 98, 10>>
    /\ m_aLines = <<NewLine(<<97>>, EolLF), NewLine(<<98>>, EolLF), NewLine(<<>>, EolNone)>>

\* ---- C2, C3: the lines SaveToFile writes
Saved == call.op = "SaveToFile"
InRange(line) ==
    call.args.nStartLine <= line /\ line < call.args.nStartLine + call.nLines
RealInRange ==
    {k \in 0..(Len(call.preLines) - 1) :
        InRange(k) /\ LF_GHOST \notin call.preLines[k + 1].flags}

\* C2: the output of SaveToFile holds neither the text nor the EOL of a line
\* flagged GHOST: every string written is the text of a non-ghost line of the
\* requested range, and the lines written appear in buffer order.
C2_GhostLinesOmitted ==
    Saved =>
        /\ \A i \in 1..Len(call.written) : call.written[i].line \in RealInRange
        /\ \A i \in 1..Len(call.written) : \A j \in 1..Len(call.written) :
             i < j => call.written[i].line < call.written[j].line
        /\ call.ret = SAVE_DONE /\ call.args.bTempFile =>
             disk.dest.data = FileContent(call.written)

\* C2 witness: a range with a ghost line between two real lines was saved and
\* both real lines were written.
W_C2_GhostInRange ==
    /\ Saved
    /\ Len(call.written) = 2
    /\ \E k \in 0..(Len(call.preLines) - 1) :
         /\ LF_GHOST \in call.preLines[k + 1].flags
         /\ call.written[1].line < k /\ k < call.written[2].line

\* The marker SaveToFile puts after a line that is not the last real line.
MarkerOf(style, own) ==
    CASE style = CRLF_STYLE_DOS -> <<13, 10>>
      [] style = CRLF_STYLE_UNIX -> <<10>>
      [] style = CRLF_STYLE_MAC -> <<13>>
      [] OTHER -> own

LastReal(lines) ==
    LET real == {k \in 1..Len(lines) : LF_GHOST \notin lines[k].flags}
    IN  IF real = {} THEN -1 ELSE (CHOOSE k \in real : \A j \in real : j <= k) - 1

\* C3 as stated: the last non-ghost line of the requested range is written
\* without a trailing EOL, for every range.
Cx_C3_LastOfRangeWithoutEol ==
    (Saved /\ call.ret = SAVE_DONE /\ RealInRange # {}) =>
        \E i \in 1..Len(call.written) :
            /\ \A k \in RealInRange : k <= call.written[i].line
            /\ call.written[i].eol = EolNone

\* C3 as amended: the last real line of the buffer, when it lies in the
\* requested range, is written without a trailing EOL whatever the style, and
\* nothing is written after it; every other line written, also the last one
\* of a range that ends before the buffer's last real line, is followed by
\* the marker the style gives it.
C3_LastRealLineOfBufferWithoutEol ==
    (Saved /\ call.ret = SAVE_DONE) =>
        LET last == LastReal(call.preLines)
        IN  /\ last \in RealInRange =>
                /\ call.written # <<>>
                /\ call.written[Len(call.written)].line = last
            /\ \A i \in 1..Len(call.written) :
                 call.written[i].eol =
                     IF call.written[i].line = last THEN EolNone
                     ELSE MarkerOf(call.style,
                                   call.preLines[call.written[i].line + 1].eol)

\* C3 witness: a range that ends before the buffer's last real line was saved
\* and its last line was written with an EOL marker.
W_C3_SubRangeKeepsEol ==
    /\ Saved /\ call.ret = SAVE_DONE
    /\ call.written # <<>>
    /\ LastReal(call.preLines) \notin RealInRange
    /\ call.written[Len(call.written)].eol # EolNone

\* ---- C4: a failed pack step
\* A user-file save came to its pack step, and the pack transform fails.
PackStepFails ==
    /\ Saved
    /\ ~call.args.bTempFile
    /\ call.args.pszFileName # ""
    /\ "pack" \in faults
    /\ faults \cap {"tmpName", "openWrite"} = {}

Occurs(ev, events) == \E i \in 1..Len(events) : events[i] = ev
Before(ev1, ev2, events) ==
    \A j \in 1..Len(events) :
        events[j] = ev2 => \E i \in 1..(j - 1) : events[i] = ev1

\* C4 as stated: when the pack transform fails in a user-file save, the
\* result is SAVE_PACK_FAILED, the destination is as before the call, the
\* intermediate file is deleted, and no save writes the destination before
\* its pack step has succeeded.
Cx_C4_PackFailureDeletesTemp ==
    /\ PackStepFails =>
        /\ call.ret = SAVE_PACK_FAILED
        /\ disk.dest = call.preDisk.dest
        /\ ~disk.tmp.exists
    /\ (Saved /\ ~call.args.bTempFile) =>
        Before("Packing ok", "copyTo dest", call.events)

\* C4 as amended: when the pack transform fails in a user-file save, the
\* result is SAVE_PACK_FAILED, the destination is as before the call, the
\* deletion of the intermediate file is attempted (the file is gone unless
\* that deletion itself fails, which is only logged), and no save writes the
\* destination before its pack step has succeeded.
C4_PackFailureLeavesDestination ==
    /\ PackStepFails =>
        /\ call.ret = SAVE_PACK_FAILED
        /\ disk.dest = call.preDisk.dest
        /\ ~Occurs("copyTo dest", call.events)
        /\ Occurs("remove tmp", call.events)
        /\ ~Occurs("LogError", call.events) => ~disk.tmp.exists
    /\ (Saved /\ ~call.args.bTempFile) =>
        /\ Before("Packing ok", "copyTo dest", call.events)
        /\ ~Occurs("copyTo dest", call.events) => disk.dest = call.preDisk.dest

\* C4 witness: the pack step failed over an existing destination, and the
\* deletion of the intermediate file failed too.
W_C4_PackFailed ==
    /\ PackStepFails
    /\ call.ret = SAVE_PACK_FAILED
    /\ call.preDisk.dest.exists
    /\ disk.tmp.exists


\* ---- C5: the sync points a delete invalidates
Deleted == call.op = "DeleteText2"
ToSet(q) == {q[i] : i \in 1..Len(q)}
\* The lines of this pane that carry a sync point before the call.
SyncLinesBefore == {SyncLine(sp, m_nThisPane) : sp \in ToSet(call.preSync)}

\* C5 as stated: DeleteText2 invalidates exactly the sync points whose line L
\* of this pane satisfies nStartLine <= L < nEndLine, for every nStartChar,
\* and does so before the underlying delete.
Cx_C5_SyncPointsFromStartLine ==
    Deleted =>
        ToSet(call.deleted) =
            {L \in SyncLinesBefore : call.nStartLine <= L /\ L < call.nEndLine}

\* C5 as amended: DeleteText2 invalidates exactly the sync points whose line L
\* of this pane satisfies nStartLine <= L < nEndLine, except that a sync
\* point on nStartLine itself is invalidated only when nStartChar = 0; no
\* other sync point is invalidated, and every DeleteSyncPoint call comes
\* before the underlying text delete.
C5_SyncPointsInvalidated ==
    Deleted =>
        LET spanned == {L \in SyncLinesBefore :
                            call.nStartLine <= L /\ L < call.nEndLine}
            kept == IF call.nStartChar > 0 THEN {call.nStartLine} ELSE {}
        IN  /\ ToSet(call.deleted) = spanned \ kept
            /\ Len(call.events) = Len(call.deleted) + 1
            /\ \A i \in 1..Len(call.events) :
                 call.events[i] = IF i <= Len(call.deleted) THEN "DeleteSyncPoint"
                                  ELSE "CGhostTextBuffer::DeleteText2"

\* C5 witness: a delete that starts inside the line of one sync point and
\* spans another one invalidated the second and kept the first.
W_C5_StartsInsideSyncLine ==
    /\ Deleted
    /\ call.nStartChar > 0
    /\ call.nStartLine \in SyncLinesBefore
    /\ call.deleted # <<>>
    /\ call.nStartLine \notin ToSet(call.deleted)
    /\ \E sp \in ToSet(syncPointList) : SyncLine(sp, m_nThisPane) = call.nStartLine

\* ---- C6: the flags of an edited line
Edited == call.op = "OnNotifyLineHasBeenEdited"

\* C6: OnNotifyLineHasBeenEdited(n) leaves line n with DIFF, TRIVIAL and
\* MOVED cleared and with its GHOST and INVISIBLE bits as they were; every
\* other line, and the text and EOL marker of line n, are unchanged.
C6_EditClearsDiffFlags ==
    Edited =>
        LET n == call.nLine + 1
            pre == call.preLines
        IN  /\ Len(m_aLines) = Len(pre)
            /\ m_aLines[n].flags \cap {LF_DIFF, LF_TRIVIAL, LF_MOVED} = {}
            /\ \A f \in {LF_GHOST, LF_INVISIBLE} :
                 f \in m_aLines[n].flags <=> f \in pre[n].flags
            /\ m_aLines[n].text = pre[n].text /\ m_aLines[n].eol = pre[n].eol
            /\ \A k \in 1..Len(pre) : k # n => m_aLines[k] = pre[k]

\* C6 witness: a line with DIFF, TRIVIAL, MOVED and INVISIBLE set was edited
\* next to a line with all flags set.
W_C6_EditedFlaggedLine ==
    /\ Edited
    /\ {LF_DIFF, LF_TRIVIAL, LF_MOVED, LF_INVISIBLE} \subseteq call.preLines[call.nLine + 1].flags
    /\ LF_INVISIBLE \in m_aLines[call.nLine + 1].flags
    /\ \E k \in 1..Len(m_aLines) : k # call.nLine + 1 /\ m_aLines[k].flags = Flags

\* ---- C7, C8: the EOL style of a statistics triple
Classified == call.op = "GetTextFileStyle"
NonZero(stats) == {c \in {"ncrlfs", "ncrs", "nlfs"} : stats[c] # 0}

\* C7: IsTextFileStylePure is true iff at most one count is nonzero, and
\* GetTextFileStyle is MIXED if not pure, else DOS if crlf >= lf and
\* crlf >= cr, else UNIX if lf >= cr, else MAC.
C7_StyleFollowsReferenceRule ==
    Classified =>
        LET t == call.stats
            pure == Cardinality(NonZero(t)) <= 1
        IN  /\ call.pure = pure
            /\ call.style =
                 IF ~pure THEN CRLF_STYLE_MIXED
                 ELSE IF t.ncrlfs >= t.nlfs /\ t.ncrlfs >= t.ncrs THEN CRLF_STYLE_DOS
                 ELSE IF t.nlfs >= t.ncrs THEN CRLF_STYLE_UNIX
                 ELSE CRLF_STYLE_MAC

\* C7 witness: a triple with only CR counted was classified pure and MAC.
W_C7_PureMac ==
    /\ Classified
    /\ call.stats = [ncrlfs |-> 0, ncrs |-> 2, nlfs |-> 0]
    /\ call.pure /\ call.style = CRLF_STYLE_MAC

\* The counts that are nonzero and maximal.
Maximal(stats) ==
    {c \in NonZero(stats) : \A d \in NonZero(stats) : stats[d] <= stats[c]}
Priority(stats) ==
    IF "ncrlfs" \in Maximal(stats) THEN CRLF_STYLE_DOS
    ELSE IF "nlfs" \in Maximal(stats) THEN CRLF_STYLE_UNIX
    ELSE CRLF_STYLE_MAC

\* C8 as stated: a tie between equal maximal nonzero counts is resolved in
\* the order DOS, UNIX, MAC: (crlf=3, cr=3, lf=0) gives DOS, (crlf=0, cr=4,
\* lf=4) gives UNIX.
Cx_C8_TiesResolvedByPriority ==
    (Classified /\ Cardinality(Maximal(call.stats)) >= 2) =>
        call.style = Priority(call.stats)

\* C8 as amended: two nonzero counts, equal or not, give MIXED, so
\* (crlf=3, cr=3, lf=0) and (crlf=0, cr=4, lf=4) give MIXED; the order DOS,
\* UNIX, MAC only decides the tie of the all-zero triple, which gives DOS.
C8_TiesAreMixed ==
    Classified =>
        /\ Cardinality(NonZero(call.stats)) >= 2 => call.style = CRLF_STYLE_MIXED
        /\ NonZero(call.stats) = {} => call.style = CRLF_STYLE_DOS

\* C8 witness: (crlf=3, cr=3, lf=0) was classified MIXED.
W_C8_TieIsMixed ==
    /\ Classified
    /\ call.stats = [ncrlfs |-> 3, ncrs |-> 3, nlfs |-> 0]
    /\ call.style = CRLF_STYLE_MIXED

\* ---- C9, C10: escaping a line
Escaped == call.op = "EscapeControlChars"

\* The value of a hexadecimal digit, -1 for any other character.
HexValue(c) ==
    IF 48 <= c /\ c <= 57 THEN c - 48
    ELSE IF 97 <= c /\ c <= 102 THEN c - 87
    ELSE IF 65 <= c /\ c <= 70 THEN c - 55
    ELSE -1

\* The reverse transform: every sequence 0x0F, hex digit, hex digit,
\* backslash becomes the character with that value.
RECURSIVE Unescape(_)
Unescape(t) ==
    IF t = <<>> THEN <<>>
    ELSE IF /\ Len(t) >= 4 /\ t[1] = 15 /\ t[4] = 92
            /\ HexValue(t[2]) >= 0 /\ HexValue(t[3]) >= 0
         THEN <<16 * HexValue(t[2]) + HexValue(t[3])>> \o Unescape(SubSeq(t, 5, Len(t)))
         ELSE <<t[1]>> \o Unescape(Tail(t))

CountOf(c, t) == Cardinality({i \in 1..Len(t) : t[i] = c})

\* C9: escaping a line and then applying the reverse transform gives the
\* line back, and a tab is never escaped: the output has as many tabs as the
\* input, and a line of tabs and printable characters only is left as it is.
C9_EscapeRoundTrips ==
    Escaped =>
        /\ Unescape(call.out) = call.s
        /\ CountOf(9, call.out) = CountOf(9, call.s)
        /\ (\A i \in 1..Len(call.s) : call.s[i] = 9 \/ call.s[i] > 31) =>
               call.out = call.s

\* C9 witness: the line 0x01, TAB, 'A' was escaped to 0x0F '0' '1' '\' TAB 'A'.
W_C9_ControlTabLetter ==
    /\ Escaped
    /\ call.s = <<1, 9, 65>>
    /\ call.out = <<15, 48, 49, 92, 9, 65>>

\* C10 as stated: a backslash or the byte 0x0F in the input is copied to the
\* output unchanged, as a single character.
Cx_C10_LeadInCopied ==
    Escaped =>
        \A i \in 1..Len(call.s) :
            call.s[i] \in {92, 15} =>
                call.out = EscapeControlChars(SubSeq(call.s, 1, i - 1))
                           \o <<call.s[i]>>
                           \o EscapeControlChars(SubSeq(call.s, i + 1, Len(call.s)))

\* C10 as amended: a backslash in the input is copied to the output
\* unchanged, as a single character; the byte 0x0F is a control character
\* and is escaped like the others, to 0x0F '0' 'f' '\'.
C10_BackslashCopiedLeadInEscaped ==
    Escaped =>
        \A i \in 1..Len(call.s) :
            call.s[i] \in {92, 15} =>
                call.out = EscapeControlChars(SubSeq(call.s, 1, i - 1))
                           \o (IF call.s[i] = 92 THEN <<92>> ELSE <<15, 48, 102, 92>>)
                           \o EscapeControlChars(SubSeq(call.s, i + 1, Len(call.s)))

\* C10 witness: the line 0x0F, backslash was escaped to 0x0F '0' 'f' '\' '\'.
W_C10_LeadInThenBackslash ==
    /\ Escaped
    /\ call.s = <<15, 92>>
    /\ call.out = <<15, 48, 102, 92, 92>>


\* ---- C11: the substitution of the requested EOL style
SavedTo == Saved /\ call.args.pszFileName # ""
\* Mixed output is disallowed: the option is off, or the pack transform
\* disallows it.
MixedDisallowed(a) ==
    ~a.allowMixedEol \/ (a.infoUnpacker.present /\ a.infoUnpacker.disallowMixedEOL)

\* C11: SaveToFile replaces the requested EOL style by the buffer's recorded
\* style exactly when the requested style is AUTOMATIC and mixed output is
\* disallowed; an explicitly requested DOS, UNIX or MAC style is never
\* replaced.
Cx_C11_ExplicitStyleNeverReplaced ==
    SavedTo =>
        call.style =
            IF call.args.nCrlfStyle = CRLF_STYLE_AUTOMATIC /\ MixedDisallowed(call.args)
            THEN m_nCRLFMode
            ELSE call.args.nCrlfStyle

\* ---- C12: a save in style AUTOMATIC when mixed output is disallowed
AutomaticDisallowed ==
    /\ SavedTo
    /\ call.ret = SAVE_DONE
    /\ call.args.nCrlfStyle = CRLF_STYLE_AUTOMATIC
    /\ MixedDisallowed(call.args)
\* The EOL markers written, the empty one after the last line aside.
MarkersWritten ==
    {call.written[i].eol : i \in 1..Len(call.written)} \ {EolNone}

\* C12 as stated: after a load, a save with style AUTOMATIC while mixed
\* output is disallowed never writes mixed terminators: all EOL markers
\* written are the canonical marker of one single style.
Cx_C12_NeverMixedOutput ==
    AutomaticDisallowed => Cardinality(MarkersWritten) <= 1

\* C12 as amended: after a load, a save with style AUTOMATIC while mixed
\* output is disallowed writes the canonical marker of the buffer's recorded
\* style after every line but the last when that style is DOS, UNIX or MAC;
\* when the recorded style is MIXED (the buffer was loaded with AUTOMATIC
\* from a file with mixed line endings) every line is written with its own
\* marker, so the output has the terminators of the file.
C12_RecordedStyleDecidesOutput ==
    AutomaticDisallowed =>
        IF m_nCRLFMode \in {CRLF_STYLE_DOS, CRLF_STYLE_UNIX, CRLF_STYLE_MAC}
        THEN MarkersWritten \subseteq {MarkerOf(m_nCRLFMode, EolNone)}
        ELSE \A i \in 1..Len(call.written) :
                 call.written[i].eol = call.preLines[call.written[i].line + 1].eol

\* C12 witness: a file with a CRLF and an LF was loaded, the style recorded
\* is MIXED, and the save in style AUTOMATIC with the option off wrote both
\* markers.
W_C12_MixedFileSavedMixed ==
    /\ AutomaticDisallowed
    /\ ~call.args.allowMixedEol
    /\ GetTextFileStyle(GetTxtStats(disk.src.data)) = CRLF_STYLE_MIXED
    /\ m_nCRLFMode = CRLF_STYLE_MIXED
    /\ MarkersWritten = {EolCRLF, EolLF}

\* ---- C13: load, then save with the EOLs preserved
PreservingUserSave ==
    /\ SavedTo
    /\ call.ret = SAVE_DONE
    /\ ~call.args.bTempFile
    /\ call.style \in {CRLF_STYLE_AUTOMATIC, CRLF_STYLE_MIXED}
    /\ call.preLines = LoadedLines(disk.src.data)

\* C13: for a buffer freshly loaded from a content X, a whole-buffer
\* user-file save that preserves EOLs, with a pack transform that leaves the
\* file as it is, writes exactly X: the line texts and terminators in order,
\* no terminator added or dropped at the end; loading the written file again
\* gives the same lines.
C13_LoadSaveRoundTrip ==
    PreservingUserSave =>
        /\ disk.dest.exists
        /\ disk.dest.data = disk.src.data
        /\ LoadedLines(disk.dest.data) = m_aLines

\* C13 witness: "a\r\nb\n" was loaded and saved with its two different
\* terminators and its empty last line.
W_C13_MixedContentRoundTrip ==
    /\ PreservingUserSave
    /\ disk.src.data = <<97, 13, 10, 10>>
    /\ Len(m_aLines) = 3
    /\ disk.dest.data = <<97, 13, 10, 10>>


\* ---- C14: a load that fails
LoadCalled == call.op = "LoadFromFile"
InitializedEmpty ==
    /\ m_bInit
    /\ Len(m_aLines) = 1
    /\ m_aLines[1].text = <<>> /\ m_aLines[1].eol = EolNone

\* C14: when the unpack transform fails LoadFromFile returns ERROR_UNPACK,
\* when opening the unpacked file fails it returns ERROR; in both cases the
\* buffer is initialized and holds exactly one empty line, none of the file.
C14_FailedLoadLeavesEmptyBuffer ==
    LoadCalled =>
        /\ "unpack" \in faults => call.ret = FRESULT_ERROR_UNPACK
        /\ ("openRead" \in faults /\ "unpack" \notin faults) => call.ret = FRESULT_ERROR
        /\ call.ret \in {FRESULT_ERROR, FRESULT_ERROR_UNPACK} => InitializedEmpty
        /\ m_bInit

\* C14 witness: a file of two lines could not be opened; the load returned
\* ERROR and the buffer holds one empty line.
W_C14_OpenFailed ==
    /\ LoadCalled
    /\ disk.src.data = <<97, 10, 98>>
    /\ call.ret = FRESULT_ERROR
    /\ m_aLines = <<NewLine(<<>>, EolNone)>>

\* ---- C15: the temporary files of a load and of a save
\* C15: on every exit path of LoadFromFile and of SaveToFile the deletion of
\* every temporary file of the call has been attempted before it returns (the
\* unpacked file, the save's intermediate file, a repacked file with a new
\* path), and a deletion error is logged and does not change the result: a
\* save that has replaced the destination returns SAVE_DONE.
Cx_C15_TempFilesAlwaysDeleted ==
    /\ (LoadCalled /\ call.bUnpackToTemp /\ call.ret # FRESULT_ERROR_UNPACK) =>
        Occurs("remove unpacked", call.events)
    /\ (Saved /\ Occurs("OpenCreate tmp", call.events)) =>
        /\ Occurs("remove tmp", call.events)
        /\ (Occurs("Packing ok", call.events) /\ "repath" \in faults) =>
               Occurs("remove packed", call.events)
        /\ (Occurs("copyTo dest", call.events) /\ "copy" \notin faults) =>
               call.ret = SAVE_DONE

\* ---- C16: the modified flags and the sync position after a save
SaveDone == Saved /\ call.ret = SAVE_DONE

\* C16: after a save that returns SAVE_DONE with bClearModifiedFlag true the
\* modified flags of the buffer and of the document are false and the sync
\* position is the undo position; with bClearModifiedFlag false the flags and
\* the sync position are as before the call.
C16_SaveClearsModifiedOnRequest ==
    SaveDone =>
        IF call.args.bClearModifiedFlag
        THEN /\ ~m_bModified
             /\ ~docModified
             /\ m_nSyncPosition = m_nUndoPosition
        ELSE /\ m_bModified = call.pre.m_bModified
             /\ docModified = call.pre.docModified
             /\ m_nSyncPosition = call.pre.m_nSyncPosition

\* C16 witness: a modified buffer with one undo record since the last save
\* was saved to a user file, and the flags and the sync position were reset.
W_C16_UserSaveClearedFlags ==
    /\ SaveDone
    /\ ~call.args.bTempFile /\ call.args.bClearModifiedFlag
    /\ call.pre.m_bModified /\ call.pre.docModified /\ call.pre.m_nSyncPosition = 0
    /\ ~m_bModified /\ ~docModified /\ m_nSyncPosition = 1

\* ---- C18: the result of a successful load
\* The load got past the unpack step and the opening of the file.
FileWasRead == LoadCalled /\ faults \cap {"unpack", "openRead"} = {}

\* C18: a load that reads the file returns OK iff at most one of the
\* reader's EOL counts is nonzero and OK_IMPURE otherwise, whatever style was
\* requested; the result is LOSSY and readOnly is true iff the loss count is
\* nonzero, the buffer is populated all the same, and without losses readOnly
\* keeps the caller's value.
C18_LoadResultAndLossyModifier ==
    FileWasRead =>
        /\ call.ret = IF Cardinality(NonZero(GetTxtStats(disk.src.data))) <= 1
                      THEN FRESULT_OK ELSE FRESULT_OK_IMPURE
        /\ call.lossy <=> call.nlosses # 0
        /\ call.nlosses # 0 => call.readOnly
        /\ call.nlosses = 0 => call.readOnly = call.readOnlyIn
        /\ m_aLines = LoadedLines(disk.src.data)

\* C18 witness: a file with a CRLF and an LF was read with losses in style
\* DOS, with readOnly false: the result is OK_IMPURE and LOSSY, readOnly is
\* true and the buffer holds the three lines.
W_C18_ImpureLossyLoad ==
    /\ FileWasRead
    /\ call.nCrlfStyle = CRLF_STYLE_DOS
    /\ disk.src.data = <<97, 13, 10, 10>>
    /\ call.nlosses = 1 /\ ~call.readOnlyIn
    /\ call.ret = FRESULT_OK_IMPURE /\ call.lossy /\ call.readOnly
    /\ Len(m_aLines) = 3


\* ---- C19: the document's undo targets after AddUndoRecord
RecordAdded == call.op = "AddUndoRecord"

\* C19: after AddUndoRecord, if the record just appended (at index
\* m_nUndoPosition - 1 of the code) carries BEGINGROUP, the undo-target list
\* is its previous content before the cursor followed by one entry for this
\* pane's view, and the cursor is at the end of the list; otherwise the list
\* and the cursor are unchanged. In every state the cursor lies within the
\* list.
C19_BeginGroupTruncatesUndoTargets ==
    /\ 0 <= curUndo /\ curUndo <= Len(undoTgt)
    /\ RecordAdded =>
        IF UNDO_BEGINGROUP \in m_aUndoBuf[m_nUndoPosition].flags
        THEN /\ undoTgt = SubSeq(call.preTgt, 1, call.preCur) \o <<m_nThisPane>>
             /\ curUndo = Len(undoTgt)
        ELSE /\ undoTgt = call.preTgt
             /\ curUndo = call.preCur

\* C19 witness: a record that begins a group was added after two undo
\* commands, and the two targets behind the cursor are gone.
W_C19_TruncatedAfterUndo ==
    /\ RecordAdded
    /\ Len(call.preTgt) = 3 /\ call.preCur = 1
    /\ UNDO_BEGINGROUP \in m_aUndoBuf[m_nUndoPosition].flags
    /\ Len(undoTgt) = 2 /\ curUndo = 2


\* ---- C20: the output of the escaper, character by character
\* What the claim gives for one character.
EscapedForm(c) ==
    IF c > 31 \/ c = 9 THEN <<c>>
    ELSE <<15, HexDigit(c \div 16), HexDigit(c % 16), 92>>

RECURSIVE ConcatEscapedForms(_)
ConcatEscapedForms(t) ==
    IF t = <<>> THEN <<>> ELSE EscapedForm(Head(t)) \o ConcatEscapedForms(Tail(t))

\* C20: the output of EscapeControlChars is the concatenation, in input
\* order, of the character itself when it is above 31 or TAB and of lead-in,
\* high-nibble digit, low-nibble digit, backslash otherwise; its length is the
\* input length plus 3 for every escaped character; and every iteration of
\* the right-to-left rewrite writes only inside the buffer and at or after
\* the index it has just read, so never over a character still to be read.
C20_EscapeIsConcatenation ==
    Escaped =>
        /\ call.out = ConcatEscapedForms(call.s)
        /\ Len(call.out) = Len(call.s)
              + 3 * Cardinality({i \in 1..Len(call.s) :
                                   call.s[i] <= 31 /\ call.s[i] # 9})
        /\ LET w == EscapeWrites(call.s)
           IN  /\ Len(w) = Len(call.s)
               /\ \A k \in 1..Len(w) :
                    /\ w[k].read = Len(call.s) + 1 - k
                    /\ w[k].read <= w[k].lo
                    /\ w[k].hi <= Len(call.out)

\* C20 witness: the line TAB, 0x01, 'A', 0x0F was escaped: two escapes among
\* characters that are copied, ten characters out.
W_C20_TwoEscapesAmongCopies ==
    /\ Escaped
    /\ call.s = <<9, 1, 65, 15>>
    /\ call.out = <<9, 15, 48, 49, 92, 65, 15, 48, 102, 92>>


\* ---- C17: the lines of dbuf after ReplaceFullLines
Replaced == call.op = "ReplaceFullLines"

\* C17: after ReplaceFullLines(dbuf, sbuf, nLineBegin, nLineEnd), where line
\* nLineEnd exists in both buffers (it may be the last line of only one of
\* them, and the method may be called on an object other than dbuf), the
\* lines nLineBegin..nLineEnd of dbuf have the text of the same lines of sbuf,
\* every line of dbuf before nLineBegin and after nLineEnd keeps its text, the
\* delete is made before the insert, and the last line of dbuf has an empty
\* EOL marker.
Cx_C17_ReplacedRangeEqualsSource ==
    Replaced =>
        /\ ~call.aborted
        /\ \A k \in call.nLineBegin..call.nLineEnd :
            /\ k < Len(m_aLines)
            /\ GetLineChars(m_aLines, k) = GetLineChars(call.sbuf, k)
        /\ \A k \in 0..(Len(call.preLines) - 1) :
            (k < call.nLineBegin \/ k > call.nLineEnd) =>
                /\ k < Len(m_aLines)
                /\ GetLineChars(m_aLines, k) = GetLineChars(call.preLines, k)
        /\ call.events \in {<<>>, <<"DeleteText">>, <<"InsertText">>,
                            <<"DeleteText", "InsertText">>}
        /\ GetLineEol(m_aLines, Len(m_aLines) - 1) = EolNone


\* ---- C21: the EOL marker after each line written
\* The file was opened and its lines were written.
LinesWritten == Saved /\ Occurs("Close", call.events)

\* C21: in every output of SaveToFile each non-ghost line written, other than
\* the last real line of the buffer, is followed by exactly one EOL marker:
\* the marker stored with the line when the effective style is AUTOMATIC or
\* MIXED, else the marker of the effective style (CR LF for DOS, LF for UNIX,
\* CR for MAC) whatever marker is stored with the line.
C21_OneMarkerAfterEachLine ==
    LinesWritten =>
        \A i \in 1..Len(call.written) :
            LET w == call.written[i]
                own == call.preLines[w.line + 1].eol
            IN  w.line # LastReal(call.preLines) =>
                    /\ w.eol \in {<<13, 10>>, <<10>>, <<13>>}
                    /\ call.style \in {CRLF_STYLE_AUTOMATIC, CRLF_STYLE_MIXED} =>
                           w.eol = own
                    /\ call.style = CRLF_STYLE_DOS => w.eol = <<13, 10>>
                    /\ call.style = CRLF_STYLE_UNIX => w.eol = <<10>>
                    /\ call.style = CRLF_STYLE_MAC => w.eol = <<13>>

\* C21 witness: a line stored with CR LF was written with LF in a UNIX save,
\* and after it a line stored with CR.
W_C21_CanonicalReplacesStored ==
    /\ LinesWritten
    /\ call.style = CRLF_STYLE_UNIX
    /\ Len(call.written) = 3
    /\ call.preLines[call.written[1].line + 1].eol = <<13, 10>>
    /\ call.preLines[call.written[2].line + 1].eol = <<13>>
    /\ call.written[1].eol = <<10>> /\ call.written[2].eol = <<10>>


\* ---- C22: the shape of a loaded buffer
\* At least one line, the last one without an EOL marker, every earlier one
\* with one.
LoadedShape(lines) ==
    /\ Len(lines) >= 1
    /\ lines[Len(lines)].eol = EolNone
    /\ \A k \in 1..(Len(lines) - 1) : lines[k].eol \in Eols

\* C22: after every successful LoadFromFile the buffer has at least one line,
\* its last line has an empty EOL marker and every earlier line a non-empty
\* one; so for a buffer that is loaded and then saved without an edit the
\* assertion of the load (the line array is not empty) and the assertion of
\* the save (the last real line has an empty EOL marker) hold.
C22_LoadedBufferShape ==
    /\ FileWasRead => LoadedShape(m_aLines)
    /\ Saved =>
        /\ Len(call.preLines) > 0
        /\ ApparentLastRealLine(call.preLines) = Len(call.preLines) - 1
        /\ GetLineEol(call.preLines, ApparentLastRealLine(call.preLines)) = EolNone
        /\ call.written # <<>> /\ call.written[Len(call.written)].eol = EolNone

\* C22 witness: a file of a line and an empty line, each ended by an EOL
\* marker, was loaded as three lines, the last one empty, and saved.
W_C22_FileEndingWithEol ==
    /\ Saved
    /\ disk.src.data = <<97, 13, 10, 10>>
    /\ Len(call.preLines) = 3
    /\ call.preLines[3] = NewLine(<<>>, EolNone)


\* ---- C23: the EOL mode recorded by a load
ConcreteStyles == {CRLF_STYLE_DOS, CRLF_STYLE_UNIX, CRLF_STYLE_MAC, CRLF_STYLE_MIXED}

\* C23: after every successful LoadFromFile the recorded EOL mode of the
\* buffer is DOS, UNIX, MAC or MIXED, never AUTOMATIC: it is the requested
\* style when that is not AUTOMATIC, and GetTextFileStyle of the reader's EOL
\* statistics when it is; a SaveToFile after the load leaves the recorded
\* mode as it was.
C23_RecordedModeIsConcrete ==
    /\ FileWasRead =>
        /\ m_nCRLFMode \in ConcreteStyles
        /\ call.nCrlfStyle # CRLF_STYLE_AUTOMATIC => m_nCRLFMode = call.nCrlfStyle
        /\ call.nCrlfStyle = CRLF_STYLE_AUTOMATIC =>
               m_nCRLFMode = GetTextFileStyle(GetTxtStats(disk.src.data))
    /\ Saved =>
        /\ m_nCRLFMode \in ConcreteStyles
        /\ m_nCRLFMode = call.pre.m_nCRLFMode

\* C23 witness: a file with one CR LF and one LF was loaded with AUTOMATIC,
\* recorded as MIXED, and saved with the recorded style substituted.
W_C23_AutomaticResolvedToMixed ==
    /\ Saved
    /\ disk.src.data = <<97, 13, 10, 10>>
    /\ call.args.nCrlfStyle = CRLF_STYLE_AUTOMATIC /\ ~call.args.allowMixedEol
    /\ call.style = CRLF_STYLE_MIXED
    /\ m_nCRLFMode = CRLF_STYLE_MIXED


\* ---- C24: which saves escape control characters
\* The file content the claim gives: every line written is the line's text,
\* escaped character by character for a temporary file and raw for a user
\* file, followed by the raw EOL marker written with it.
RECURSIVE ClaimedContent(_, _, _)
ClaimedContent(written, lines, bTempFile) ==
    IF written = <<>> THEN <<>>
    ELSE LET w == Head(written)
             raw == lines[w.line + 1].text
         IN  (IF bTempFile THEN ConcatEscapedForms(raw) ELSE raw) \o w.eol
             \o ClaimedContent(Tail(written), lines, bTempFile)

\* C24: SaveToFile escapes the control characters of a line it writes iff
\* bTempFile is true: a user-file save writes every control character of the
\* text raw, a temp-file save writes each line's text as EscapeControlChars
\* gives it, and the EOL marker is appended after the escaping and is never
\* escaped.
C24_EscapedIffTempFile ==
    (LinesWritten /\ call.ret = SAVE_DONE) =>
        /\ disk.dest.data = ClaimedContent(call.written, call.preLines,
                                           call.args.bTempFile)
        /\ \A i \in 1..Len(call.written) :
            /\ call.written[i].eol \in Eols \cup {EolNone}
            /\ ~call.args.bTempFile =>
                   call.written[i].text = call.preLines[call.written[i].line + 1].text

\* C24 witness: the lines 0x01 TAB (ended by CR LF) and 0x0F were saved to a
\* temporary file in a style that keeps the stored markers.
W_C24_TempFileEscaped ==
    /\ LinesWritten
    /\ call.args.bTempFile
    /\ call.preLines[1] = NewLine(<<1, 9>>, <<13, 10>>)
    /\ disk.dest.data = <<15, 48, 49, 92, 9, 13, 10, 15, 48, 102, 92>>


\* ---- C25: saves that fail
SaveFailed == Saved /\ call.ret \in {SAVE_FAILED, SAVE_PACK_FAILED}

\* C25: SaveToFile with an empty destination path returns SAVE_FAILED and
\* neither opens nor creates a file; and whenever SaveToFile returns
\* SAVE_FAILED or SAVE_PACK_FAILED (empty path, no temporary file name, open
\* failure, pack failure, exception while the destination is replaced) the
\* modified flag of the buffer, the sync position and the revision number
\* remembered on save are what they were before the call.
C25_FailedSaveKeepsBookkeeping ==
    /\ (Saved /\ call.args.pszFileName = "") =>
        /\ call.ret = SAVE_FAILED
        /\ call.events = <<>>
        /\ disk = call.preDisk
    /\ SaveFailed =>
        /\ m_bModified = call.pre.m_bModified
        /\ docModified = call.pre.docModified
        /\ m_nSyncPosition = call.pre.m_nSyncPosition
        /\ m_dwRevisionNumberOnSave = call.pre.m_dwRevisionNumberOnSave

\* C25 witness: a user-file save that was asked to clear the modified flag
\* failed while the destination was replaced, after the pack step; the buffer
\* is still modified and no revision number was remembered.
W_C25_FailedWhileReplacing ==
    /\ SaveFailed
    /\ call.args.bClearModifiedFlag
    /\ Occurs("Packing ok", call.events) /\ Occurs("copyTo dest", call.events)
    /\ m_bModified /\ m_nSyncPosition # m_nUndoPosition
    /\ m_dwRevisionNumberOnSave # m_dwCurrentRevisionNumber


\* ---- C26: what a save leaves alone
\* C26: under every outcome (SAVE_DONE, SAVE_FAILED, SAVE_PACK_FAILED), for
\* temp-file and user-file saves alike, SaveToFile leaves the line store as it
\* was: the same number of lines, and for every line the same text, EOL marker
\* and flags (escaping works on a copy); the recorded encoding is unchanged.
C26_SaveLeavesLinesAndEncoding ==
    Saved =>
        /\ Len(m_aLines) = Len(call.preLines)
        /\ \A k \in 1..Len(call.preLines) :
            /\ m_aLines[k].text = call.preLines[k].text
            /\ m_aLines[k].eol = call.preLines[k].eol
            /\ m_aLines[k].flags = call.preLines[k].flags
        /\ m_encoding = call.pre.m_encoding

\* C26 witness: a temp-file save wrote the escaped form of a line with a
\* control character into the file, and the line of the buffer still holds
\* the control character.
W_C26_EscapedCopyOnly ==
    /\ Saved /\ call.ret = SAVE_DONE
    /\ call.args.bTempFile
    /\ call.written # <<>> /\ call.written[1].text = <<15, 48, 49, 92, 9>>
    /\ m_aLines[1].text = <<1, 9>>
    /\ m_encoding = EncodingUtf8Bom

\* The place of a compare state in the order idle, start, compare.
StateOrder(state) == CASE state = STATE_IDLE -> 0 [] state = STATE_START -> 1 [] state = STATE_COMPARE -> 2

\* The compare has finished and the update timer is still running.
DoneWhileUpdating == timerSet /\ compareStats.state = STATE_IDLE /\ compareStats.done

\* The tick that ended the updating: the timer is killed, EndUpdating was
\* called once since StartUpdating and m_bCompareReady is set.
UpdatingEnded == ~timerSet /\ nEndUpdating = 1 /\ m_bCompareReady

\* C27: after each call of StartUpdating on a progress bar, the first and
\* any later one, once the statistics report STATE_IDLE with the compare done
\* while the update timer keeps firing, some tick calls EndUpdating (the
\* timer is killed) and sets m_bCompareReady; EndUpdating is called at most
\* once per StartUpdating; and between two calls of StartUpdating
\* m_prevState only moves forward in the order idle, start, compare.
Cx_C27_EveryStartUpdatingEnds ==
    /\ [](nEndUpdating <= 1)
    /\ [][nStartUpdating' = nStartUpdating => StateOrder(m_prevState') >= StateOrder(m_prevState)]_vars
    /\ DoneWhileUpdating ~> UpdatingEnded

====
